---- MODULE Spec2Model ----
(***************************************************************************)
(* Model of the mesh decomposition and task scheduling of mesh.cpp         *)
(* (src/unnamed/part_001): the greedy partition planner of the two Mesh    *)
(* constructors, Mesh::UpdateOneStep, MeshBlock::DoOneTask and             *)
(* Mesh::NewTimeStep.                                                      *)
(*                                                                         *)
(* Bit masks (taskid, depend, task_flag) are sets of bit positions:        *)
(*   a & b  is  a \cap b,   a | b  is  a \cup b,   0L  is  {}.             *)
(* Array indices are 0-based as in the source; a TLA+ sequence s holds     *)
(* element i of the array at s[i+1].                                       *)
(* Costs are of type Real in the source.  The model draws them from small  *)
(* positive integers, for which the floating point sums are exact and the  *)
(* comparison  mycost >= totalcost/(j+1)  agrees with the exact rational   *)
(* comparison; targetcost is kept as a fraction <<num, den>>.              *)
(***************************************************************************)
EXTENDS Integers, Sequences, FiniteSets, TLC

\* ------------------------------------------------------------------ bounds
MaxBlocks == 4      \* largest number of leaves (nbtotal) of a mesh
MaxCost == 3        \* largest per-block cost read from a checkpoint
MaxProc == 3        \* largest worker count (nproc)
MaxGrid == 4        \* most root blocks along one axis of a tree
MaxList == 7        \* longest list of MeshBlocks destroyed

\* values an uninitialized int of nslist / nblist may hold
GarbageVals == {-1, 2}

\* ===================================================== partition planner
\* sum of costs[lo..hi] (1-based, inclusive)
RECURSIVE SumCost(_, _, _)
SumCost(costs, lo, hi) ==
  IF lo > hi THEN 0 ELSE costs[lo] + SumCost(costs, lo + 1, hi)

\* targetcost=totalcost/nproc, as the fraction <<num, den>>
InitialTargetOffByOne(total, np) == <<total, np + 1>>
InitialTarget(total, np) == <<total, np>>

\* if(mycost >= targetcost && j>0)
CloseBucketAtOnce(mycost, target, j) == mycost > 0 /\ j > 0
CloseBucketAtHalf(mycost, target, j) ==
  2 * mycost * target[2] >= target[1] /\ j > 0
CloseBucket(mycost, target, j) ==
  mycost * target[2] >= target[1] /\ j > 0

\* the loop  for(i=nbtotal-1;i>=0;i--)  of the planner; i is the number of
\* blocks still to visit, so the block visited has global ID i-1
RECURSIVE RankLoop(_, _, _, _, _, _, _)
RankLoop(costs, i, j, total, mycost, target, rl) ==
  IF i = 0 THEN rl
  ELSE LET mc == mycost + costs[i]
           rl2 == [rl EXCEPT ![i] = j]
       IN IF CloseBucket(mc, target, j)
          THEN RankLoop(costs, i - 1, j - 1, total - mc, 0,
                        <<total - mc, j>>, rl2)
          ELSE RankLoop(costs, i - 1, j, total, mc, target, rl2)

\* j=nproc-1: the rank of the first bucket
LastRankOffByOne(np) == np
LastRank(np) == np - 1

\* ranklist as computed from costlist and nproc
RankList(costs, np) ==
  LET total == SumCost(costs, 1, Len(costs))
  IN RankLoop(costs, Len(costs), LastRank(np), total, 0,
              InitialTarget(total, np), [k \in 1..Len(costs) |-> 0])

\* the loop  for(i=1;i<nbtotal;i++)  that makes the list of nbstart; ns and
\* nb are nslist and nblist (entry r at ns[r+1]), i is the 0-based loop index
RECURSIVE StartLoop(_, _, _, _, _)
StartLoop(rl, i, j, ns, nb) ==
  IF i >= Len(rl)
  THEN [nslist |-> ns,
        nblist |-> [nb EXCEPT ![j + 1] = Len(rl) - ns[j + 1]]]
  ELSE IF rl[i + 1] # rl[i]
       THEN StartLoop(rl, i + 1, j + 1,
                      [ns EXCEPT ![j + 2] = i],
                      [nb EXCEPT ![j + 1] = i - ns[j + 1]])
       ELSE StartLoop(rl, i + 1, j, ns, nb)

\* nslist and nblist; ns0 and nb0 are the contents of the freshly allocated
\* arrays (new int[nproc] leaves them uninitialized)
StartCountLists(rl, ns0, nb0) ==
  StartLoop(rl, 1, 0, [ns0 EXCEPT ![1] = 0], nb0)

\* nbstart=nslist[myrank]
NbStart(ns, rank) == ns[rank + 1]

\* if(myrank+1==nproc) nbend=nbtotal-1; else nbend=nslist[myrank+1]-1;
NbEnd(ns, rank, np, n) ==
  IF rank + 1 = np THEN n - 1 ELSE ns[rank + 2] - 1

\* ------------------------------------ the planner of the restart constructor
\* targetcost=totalcost/nproc  (restart)
RestartInitialTarget(total, np) == <<total, np>>

\* if(mycost >= targetcost && j>0)  (restart)
RestartCloseBucketStrict(mycost, target, j) ==
  mycost * target[2] > target[1] /\ j > 0
RestartCloseBucket(mycost, target, j) ==
  mycost * target[2] >= target[1] /\ j > 0

\* the loop  for(i=nbtotal-1;i>=0;i--)  of the restart constructor
RECURSIVE RestartRankLoop(_, _, _, _, _, _, _)
RestartRankLoop(costs, i, j, total, mycost, target, rl) ==
  IF i = 0 THEN rl
  ELSE LET mc == mycost + costs[i]
           rl2 == [rl EXCEPT ![i] = j]
       IN IF RestartCloseBucket(mc, target, j)
          THEN RestartRankLoop(costs, i - 1, j - 1, total - mc, 0,
                               <<total - mc, j>>, rl2)
          ELSE RestartRankLoop(costs, i - 1, j, total, mc, target, rl2)

\* ranklist of the restart constructor; totalcost was summed while the costs
\* were read from the checkpoint
RestartRankList(costs, np) ==
  LET total == SumCost(costs, 1, Len(costs))
  IN RestartRankLoop(costs, Len(costs), np - 1, total, 0,
                     RestartInitialTarget(total, np),
                     [k \in 1..Len(costs) |-> 0])

\* the loop that makes the list of nbstart in the restart constructor
RECURSIVE RestartStartLoop(_, _, _, _, _)
RestartStartLoop(rl, i, j, ns, nb) ==
  IF i >= Len(rl)
  THEN [nslist |-> ns,
        nblist |-> [nb EXCEPT ![j + 1] = Len(rl) - ns[j + 1]]]
  ELSE IF rl[i + 1] # rl[i]
       THEN RestartStartLoop(rl, i + 1, j + 1,
                             [ns EXCEPT ![j + 2] = i],
                             [nb EXCEPT ![j + 1] = i - ns[j + 1]])
       ELSE RestartStartLoop(rl, i + 1, j, ns, nb)

\* nslist and nblist of the restart constructor
RestartStartCountLists(rl, ns0, nb0) ==
  RestartStartLoop(rl, 1, 0, [ns0 EXCEPT ![1] = 0], nb0)

\* ------------------------------------------- checks after the planner
\* if(nbtotal < nproc)
TooFewBlocksNever(n, np) == FALSE
TooFewBlocks(n, np) == n < np

\* if(nbtotal % nproc != 0 && adaptive == false && maxcost == mincost
\*    && myrank==0)
UnevenLoad(costs, np, adapt, rank) ==
  /\ Len(costs) % np # 0
  /\ ~adapt
  /\ \A a \in 1..Len(costs) : \A b \in 1..Len(costs) : costs[a] = costs[b]
  /\ rank = 0

\* the global IDs visited by  for(i=nbstart;i<=nbend;i++)
OwnedIds(first, last_) == [k \in 1..(last_ - first + 1) |-> first + k - 1]

\* ======================================== configuration of a fresh run
\* The parameters the constructor reads from the input file: pin is a record
\*   num_threads, cfl (Courant number times 10),
\*   nx, bnx (mesh and block cell counts per axis),
\*   xmin, xmax (extents per axis), xrat (cell size ratio times 100 per axis),
\*   bcs (boundary tag of each of the six faces)
Axes == 1..3
Faces == 0..5

\* enum direction: inner_x1, outer_x1, inner_x2, outer_x2, inner_x3, outer_x3
\* are the faces 0..5; face f is on axis f \div 2 + 1, inner when f is even

\* the checks of lines 104-211, in the order of the code; TRUE when one throws
BadThreads(p) == p.num_threads < 1
BadMeshCells(p) ==
  \/ p.nx[1] < 4
  \/ p.nx[2] < 1
  \/ p.nx[3] < 1
  \/ (p.nx[2] = 1 /\ p.nx[3] > 1)
BadCourant(p) ==
  \/ (p.cfl > 10 /\ p.nx[2] = 1)
  \/ (p.cfl > 5 /\ p.nx[2] > 1)
BadExtent(p) == \E a \in Axes : p.xmax[a] <= p.xmin[a]
BadRatio(p) ==
  \E a \in Axes :
    (IF p.xrat[a] >= 100 THEN p.xrat[a] - 100 ELSE 100 - p.xrat[a]) > 10

\* mesh_size.nx%block_size.nx with a zero block size is undefined: the
\* process is stopped by the division trap, or the remainder is any value.
\* The three remainders are joined by ||, so the one of an axis is taken
\* only when those of the axes before it are zero
ZeroDivisor(p) ==
  \E a \in Axes :
    /\ p.bnx[a] = 0
    /\ \A b \in 1..(a - 1) : p.bnx[b] # 0 => p.nx[b] % p.bnx[b] = 0
Remainders == {0, 1}

\* if(mesh_size.nx1%block_size.nx1 != 0 || ...): rem[a] is the remainder found
\* on axis a
NotDivisible(rem) == \E a \in Axes : rem[a] # 0

\* the remainders the build finds for configuration p, z[a] being what the
\* undefined division leaves on axis a
Remainder(p, z) ==
  [a \in Axes |-> IF p.bnx[a] = 0 THEN z[a] ELSE p.nx[a] % p.bnx[a]]
UndefinedRemainders(p) ==
  {z \in [Axes -> Remainders] : \A a \in Axes : p.bnx[a] # 0 => z[a] = 0}

\* if(block_size.nx1 <2 || (block_size.nx2<2 && mesh_size.nx2!=1) || ...)
BlockTooSmall(p) ==
  \/ p.bnx[1] < 2
  \/ (p.bnx[2] < 2 /\ p.nx[2] # 1)
  \/ (p.bnx[3] < 2 /\ p.nx[3] # 1)

\* mesh_size.nx/block_size.nx divides by zero
ZeroBlock(p) == \E a \in Axes : p.bnx[a] = 0

\* nrbx1, nrbx2, nrbx3: the number of blocks of the root grid per axis
RootGrid(p) == [a \in Axes |-> p.nx[a] \div p.bnx[a]]

\* nbtotal of a fresh run: the leaves of the tree made by CreateRootGrid
LeafCount(nrb) == nrb[1] * nrb[2] * nrb[3]

\* ---- inputs
\* the root grids: a row of up to MaxBlocks blocks, or at most two blocks per
\* axis
Shapes ==
  {nrb \in (1..MaxBlocks) \X (1..2) \X (1..2) :
     /\ LeafCount(nrb) <= MaxBlocks
     /\ (nrb[2] * nrb[3] > 1 => nrb[1] <= 2)}

\* the numbers of active axes a root grid can have
Dims(nrb) == {d \in Axes : \A a \in Axes : nrb[a] > 1 => a <= d}

\* a configuration that passes every check: root grid nrb, dim active axes of
\* blocks of four cells, boundary tags bcs
Config(nrb, dim, bcs) ==
  [num_threads |-> 1, cfl |-> 3,
   nx |-> [a \in Axes |-> IF a <= dim THEN 4 * nrb[a] ELSE 1],
   bnx |-> [a \in Axes |-> IF a <= dim THEN 4 ELSE 1],
   xmin |-> [a \in Axes |-> 0], xmax |-> [a \in Axes |-> 1],
   xrat |-> [a \in Axes |-> 100], bcs |-> bcs]

\* c with one parameter replaced, or c itself
Variants(c) ==
  {c}
  \cup {[c EXCEPT !.num_threads = v] : v \in {0, 2}}
  \cup {[c EXCEPT !.cfl = v] : v \in {8, 11}}
  \cup UNION {{[c EXCEPT !.nx[a] = v] : v \in {0, 1, 3, 4}} : a \in Axes}
  \cup UNION {{[c EXCEPT !.bnx[a] = v] : v \in {0, 1, 2, 3}} : a \in Axes}
  \cup {[c EXCEPT !.xmax[a] = 0] : a \in Axes}
  \cup UNION {{[c EXCEPT !.xrat[a] = v] : v \in {85, 115}} : a \in Axes}

\* the boundary tags: 1 (reflecting) and 4 (periodic)
Tags == {1, 4}

\* =========================================================== block tree
\* BlockTree and BlockUID are not part of the sources at hand; they are
\* modelled from their description: a node is a record  null, level, gid,
\* kids  with kids the set of its children, one record  o (octant), node
\* per child, empty for a leaf
NULL == [null |-> TRUE, level |-> 0, gid |-> 0, kids |-> {}]
Leaf(level, gid) == [null |-> FALSE, level |-> level, gid |-> gid, kids |-> {}]

\* for(root_level=0;(1<<root_level)<nbmax;root_level++);
RootLevel(nrb) ==
  LET nbmax == IF nrb[1] > nrb[2]
               THEN (IF nrb[1] > nrb[3] THEN nrb[1] ELSE nrb[3])
               ELSE (IF nrb[2] > nrb[3] THEN nrb[2] ELSE nrb[3])
  IN CHOOSE k \in 0..nbmax :
       /\ 2 ^ k >= nbmax
       /\ \A m \in 0..(k - 1) : 2 ^ m < nbmax

\* CreateRootGrid, AssignGID and GetLocation on a root grid that is a row of
\* blocks or has at most two blocks per axis: the leaves are numbered along
\* x1 first, then x2, then x3, and all are at the root level
Location(g, nrb) ==
  <<g % nrb[1], (g \div nrb[1]) % nrb[2], g \div (nrb[1] * nrb[2])>>
GidAt(loc, nrb) == loc[1] + nrb[1] * (loc[2] + nrb[2] * loc[3])

\* BlockTree::CreateRootGrid(nx, ny, nz, nl) on the node at lx of level l:
\* the child of octant o is made when the root blocks it covers begin inside
\* the grid
ChildInGridOffByOne(lx, l, o, nrb, nl) ==
  \A a \in Axes : (2 * lx[a] + o[a]) * 2^(nl - l - 1) <= nrb[a]
ChildInGrid(lx, l, o, nrb, nl) ==
  \A a \in Axes : (2 * lx[a] + o[a]) * 2^(nl - l - 1) < nrb[a]

\* the octants in the order of the traversal: x1 fastest, x3 slowest
OctantOrder ==
  [o \in 1..8 |-> <<(o - 1) % 2, ((o - 1) \div 2) % 2, (o - 1) \div 4>>]

\* BlockTree::AssignGID(id) on the tree CreateRootGrid made below the node
\* at lx of level l: the traversal gives every leaf the value of the
\* counter and adds one to it.  The result: the leaves, the counter
RECURSIVE AssignGID(_, _, _, _, _)
RECURSIVE AssignKids(_, _, _, _, _, _)
AssignGID(lx, l, nrb, nl, id) ==
  IF l = nl
  THEN [leaves |-> {[lx |-> lx, level |-> l, gid |-> id]}, id |-> id + 1]
  ELSE AssignKids(lx, l, nrb, nl, id, 1)

AssignKids(lx, l, nrb, nl, id, o) ==
  IF o > 8 THEN [leaves |-> {}, id |-> id]
  ELSE IF ChildInGrid(lx, l, OctantOrder[o], nrb, nl)
  THEN LET kid == [a \in Axes |-> 2 * lx[a] + OctantOrder[o][a]]
           first == AssignGID(kid, l + 1, nrb, nl, id)
           rest == AssignKids(lx, l, nrb, nl, first.id, o + 1)
       IN [leaves |-> first.leaves \cup rest.leaves, id |-> rest.id]
  ELSE AssignKids(lx, l, nrb, nl, id, o + 1)

\* tree.CreateRootGrid(nrbx1,nrbx2,nrbx3,root_level); tree.AssignGID(nbtotal)
RootTree(nrb) == AssignGID(<<0, 0, 0>>, 0, nrb, RootLevel(nrb), 0)

\* tree.FindNeighbor(dir,buid,nrbx1,nrbx2,nrbx3,root_level) on the root grid:
\* the leaf across face f of the block at lx, around the domain at an edge
FindNeighbor(f, lx, nrb, ll) ==
  LET a == f \div 2 + 1
      step == IF f % 2 = 0 THEN nrb[a] - 1 ELSE 1
      to == [lx EXCEPT ![a] = (lx[a] + step) % nrb[a]]
  IN Leaf(ll, GidAt(to, nrb))

\* neibt->GetLeaf(ox,oy,oz): the child in octant o, NULL if there is none
GetLeaf(n, o) ==
  IF \E k \in n.kids : k.o = o
  THEN (CHOOSE k \in n.kids : k.o = o).node
  ELSE NULL

\* pblock->SetNeighbor(dir,rank,level,gid,lid,fi1,fi2): the record of
\* sub-face (fi1,fi2) of face dir is replaced
SetNeighbor(tab, dir, rank, level, gid, lid, fi1, fi2) ==
  {r \in tab : ~(r.dir = dir /\ r.fi1 = fi1 /\ r.fi2 = fi2)}
  \cup {[dir |-> dir, fi1 |-> fi1, fi2 |-> fi2,
          rank |-> rank, level |-> level, gid |-> gid, lid |-> lid]}

\* ====================================================== neighbor wiring
\* lx==0 on the inner face, lx==(nrbx<<(ll-root_level))-1 on the outer face
AtEdge(f, lx, nrb, ll, root_level) ==
  LET a == f \div 2 + 1 IN
  IF f % 2 = 0 THEN lx[a] = 0
  ELSE lx[a] = nrb[a] * 2 ^ (ll - root_level) - 1

\* block_bcs: the mesh tag on a face at the edge of the domain, -1 elsewhere
BlockBcs(p, lx, nrb, ll, root_level) ==
  [f \in Faces |-> IF AtEdge(f, lx, nrb, ll, root_level) THEN p.bcs[f] ELSE -1]

\* the test that stores the sentinel on face f: an edge of the domain that is
\* not periodic, or (x2 and x3 faces) an axis of one cell
NoNeighborMissed(p, f, edge) ==
  (edge /\ p.bcs[f] # 4)
NoNeighbor(p, f, edge) ==
  \/ (edge /\ p.bcs[f] # 4)
  \/ (f \div 2 + 1 >= 2 /\ p.nx[f \div 2 + 1] = 1)

\* the child octant named in the call of GetLeaf that goes with sub-face
\* (i,j) of face f
FinerOctant(f, i, j) ==
  LET fix == 1 - (f % 2) IN
  IF f \div 2 = 0 THEN <<fix, i, j>>
  ELSE IF f \div 2 = 1 THEN <<i, fix, j>>
  ELSE <<i, j, fix>>

\* the four sub-faces in the order of the calls
SubFaces == <<<<0, 0>>, <<0, 1>>, <<1, 0>>, <<1, 1>>>>

\* SetNeighbor(dir, ranklist[nei.gid], nei.level, nei.gid,
\*             nei.gid-nslist[ranklist[nei.gid]], fi1, fi2)
StoreNeighbor(tab, f, n, rl, ns, fi1, fi2) ==
  SetNeighbor(tab, f, rl[n.gid + 1], n.level, n.gid,
              n.gid - ns[rl[n.gid + 1] + 1], fi1, fi2)

RECURSIVE StoreFiner(_, _, _, _, _, _)
StoreFiner(tab, f, neibt, rl, ns, k) ==
  IF k > Len(SubFaces) THEN tab
  ELSE StoreFiner(StoreNeighbor(tab, f,
                                GetLeaf(neibt, FinerOctant(f, SubFaces[k][1],
                                                           SubFaces[k][2])),
                                rl, ns, SubFaces[k][1], SubFaces[k][2]),
                  f, neibt, rl, ns, k + 1)

\* the wiring of face f of a block at level ll: none is TRUE when the
\* sentinel test holds, neibt is the node FindNeighbor returns otherwise.
\* The result is the table and  status: "ok", "fatal" (neighbor search
\* failed) or "undefined" (GetLeaf returned NULL and is dereferenced)
WireFace(tab, f, none, neibt, ll, rl, ns) ==
  IF none
  THEN [status |-> "ok", tab |-> SetNeighbor(tab, f, -1, -1, -1, -1, 0, 0)]
  ELSE IF neibt.null
  THEN [status |-> "fatal", tab |-> tab]
  ELSE IF neibt.level = ll \/ neibt.level = ll - 1
  THEN [status |-> "ok", tab |-> StoreNeighbor(tab, f, neibt, rl, ns, 0, 0)]
  ELSE IF \E k \in 1..Len(SubFaces) :
            GetLeaf(neibt, FinerOctant(f, SubFaces[k][1], SubFaces[k][2])).null
  THEN [status |-> "undefined", tab |-> tab]
  ELSE [status |-> "ok", tab |-> StoreFiner(tab, f, neibt, rl, ns, 1)]

\* the six faces of the block g of the root grid: the records of a face are
\* those of no other face, so the table is the union of what each face
\* stores; the first face that fails ends the search
WireBlock(p, nrb, g, rl, ns) ==
  LET ll == RootLevel(nrb)
      lx == Location(g, nrb)
      w == [f \in Faces |->
              WireFace({}, f, NoNeighbor(p, f, AtEdge(f, lx, nrb, ll, ll)),
                       FindNeighbor(f, lx, nrb, ll), ll, rl, ns)]
      bad == {f \in Faces : w[f].status # "ok"}
  IN IF bad = {}
     THEN [status |-> "ok", tab |-> UNION {w[f].tab : f \in Faces}]
     ELSE LET f0 == CHOOSE f \in bad : \A h \in bad : f <= h
          IN [status |-> w[f0].status,
              tab |-> UNION {w[f].tab : f \in 0..(f0 - 1)}]

\* new MeshBlock(i, i-nbstart, buid[i], block_size, block_bcs, this, pin) and
\* its neighbors: gid, lid, the boundary tags, cost 1.0 and the table
FreshBlock(p, nrb, g, first, rl, ns) ==
  LET ll == RootLevel(nrb)
      w == WireBlock(p, nrb, g, rl, ns)
  IN [gid |-> g, lid |-> g - first, cost |-> 1,
      block_bcs |-> BlockBcs(p, Location(g, nrb), nrb, ll, ll),
      neighbor |-> w.tab]

\* ===================================================== checkpoint stream
\* The file is the sequence of its fields, one per call of Read; a field is
\* a record  k (what the writer put there), v (the value).  A read takes
\* the value at its position whatever the writer meant it to be.
Item(k, v) == [k |-> k, v |-> v]

\* what a variable holds after a short read
Unread == Item("unread", 0)

\* resfile.Read at position pos of the file f: a file that ends before the
\* field gives a short read
Read1(f, pos) == IF pos < Len(f) THEN f[pos + 1] ELSE Unread

\* nerr after n calls of  if(resfile.Read(...)!=count) nerr++  from pos
ShortReads(f, pos, n) == Cardinality({i \in 0..(n - 1) : pos + i >= Len(f)})

\* if(nerr>0) in the Mesh constructor
ReadError(n) == n > 0

\* if(nerr>0) in the MeshBlock constructor
BlockReadErrorLate(n) == n > 1
BlockReadError(n) == n > 0

\* the ID length of this build
IDLENGTH == 1

\* the reads of the preamble, of one leaf of the list, and of the three
\* groups of a block (structure, coordinates, fields of a build without
\* general relativity and magnetic fields)
PreambleReads == 9
LeafReads == 5
StructReads == 3
CoordReads == 6
FieldReads == 1

\* MeshBlock::GetBlockSizeInBytes, in fields
GetBlockSizeInBytes == StructReads + CoordReads + FieldReads

\* ---- the writer (not part of the sources at hand: the fields in the order
\* the restart constructors read them)
RECURSIVE Flatten(_)
Flatten(ss) == IF ss = <<>> THEN <<>> ELSE Head(ss) \o Flatten(Tail(ss))

Preamble(n, idl, p, nrb) ==
  <<Item("nbtotal", n), Item("idl", idl),
    Item("root_level", RootLevel(nrb)), Item("max_level", RootLevel(nrb)),
    Item("mesh_size", [nx |-> p.nx, xmin |-> p.xmin, xmax |-> p.xmax,
                       xrat |-> p.xrat]),
    Item("mesh_bcs", p.bcs), Item("time", 0), Item("dt", 0),
    Item("ncycle", 0)>>

LeafEntry(b, off) ==
  <<Item("gid", b.gid), Item("level", b.level), Item("rawid", b.gid),
    Item("cost", b.cost), Item("offset", off)>>

BlockRecord(b) ==
  <<Item("block_size", b.block_size), Item("block_bcs", b.block_bcs),
    Item("neighbor", b.neighbor),
    Item("x1f", b.x1f), Item("x2f", b.x2f), Item("x3f", b.x3f),
    Item("dx1f", b.dx1f), Item("dx2f", b.dx2f), Item("dx3f", b.dx3f),
    Item("u", b.u)>>

\* the checkpoint of the blocks bs of the mesh of configuration p
WriteRestart(bs, idl, p) ==
  LET n == Len(bs)
      first == PreambleReads + LeafReads * n
  IN Preamble(n, idl, p, RootGrid(p))
     \o Flatten([g \in 1..n |->
                   LeafEntry(bs[g], first + (g - 1) * GetBlockSizeInBytes)])
     \o Flatten([g \in 1..n |-> BlockRecord(bs[g])])

\* the blocks of a run on the mesh of p at the time of the checkpoint, rl
\* and ns being the rank list and the start list of that run: wired as by
\* the fresh constructor, with the costs given
WrittenBlocks(p, costs, rl, ns) ==
  LET nrb == RootGrid(p)
      n == LeafCount(nrb)
  IN [i \in 1..n |->
       LET g == i - 1
           b == FreshBlock(p, nrb, g, ns[rl[i] + 1], rl, ns)
       IN [gid |-> g, lid |-> b.lid, level |-> RootLevel(nrb),
           cost |-> costs[i],
           block_size |-> <<"RegionSize", Location(g, nrb)>>,
           block_bcs |-> b.block_bcs, neighbor |-> b.neighbor,
           x1f |-> <<"x1f", g>>, x2f |-> <<"x2f", g>>, x3f |-> <<"x3f", g>>,
           dx1f |-> <<"dx1f", g>>, dx2f |-> <<"dx2f", g>>,
           dx3f |-> <<"dx3f", g>>, u |-> <<"u", g>>]]

\* ---- the restart constructor of a block
\* the loop that sets rank and local id of every neighbor with gid!=-1
SetRankAndLidNot(tab, rl, ns) == tab
SetRankAndLid(tab, rl, ns) ==
  {IF r.gid # -1
   THEN [r EXCEPT !.rank = rl[r.gid + 1],
                  !.lid = r.gid - ns[rl[r.gid + 1] + 1]]
   ELSE r : r \in tab}

\* MeshBlock::MeshBlock(igid, ilid, ..., resfile, offset, icost, ranklist,
\* nslist): seek, read the structure, set rank and local id of the
\* neighbors, read the coordinates, read the fields; each group of reads is
\* followed by the test of nerr.  The result: failed (the exception, after
\* resfile.Close()), the short reads counted, the calls of Read made from
\* the offset on, the block
RestartBlock(f, gid, lid, off, cost, rl, ns) ==
  LET a == ShortReads(f, off, StructReads)
      b == ShortReads(f, off + StructReads, CoordReads)
      c == ShortReads(f, off + StructReads + CoordReads, FieldReads)
  IN IF BlockReadError(a)
     THEN [failed |-> TRUE, nerr |-> a, nread |-> StructReads,
           block |-> <<>>]
     ELSE IF BlockReadError(b)
     THEN [failed |-> TRUE, nerr |-> a + b,
           nread |-> StructReads + CoordReads, block |-> <<>>]
     ELSE IF BlockReadError(c)
     THEN [failed |-> TRUE, nerr |-> a + b + c,
           nread |-> GetBlockSizeInBytes, block |-> <<>>]
     ELSE [failed |-> FALSE, nerr |-> a + b + c,
           nread |-> GetBlockSizeInBytes,
           block |->
             [gid |-> gid, lid |-> lid, cost |-> cost,
              block_size |-> Read1(f, off).v,
              block_bcs |-> Read1(f, off + 1).v,
              neighbor |-> SetRankAndLid(Read1(f, off + 2).v, rl, ns),
              x1f |-> Read1(f, off + 3).v, x2f |-> Read1(f, off + 4).v,
              x3f |-> Read1(f, off + 5).v, dx1f |-> Read1(f, off + 6).v,
              dx2f |-> Read1(f, off + 7).v, dx3f |-> Read1(f, off + 8).v,
              u |-> Read1(f, off + 9).v]]

\* offset[i] and costlist[i] as read from the leaf list of the file f
LeafCost(f, g) == Read1(f, PreambleReads + LeafReads * g + 3).v
LeafOffset(f, g) == Read1(f, PreambleReads + LeafReads * g + 4).v

\* the loop over nbstart..nbend of the restart constructor on the file f
\* with n leaves: own holds the global IDs in order, rl and ns are ranklist
\* and nslist, pre the short reads counted before.  The blocks are loaded
\* in order up to the first that fails; an ID outside 0..n-1 reads
\* offset[i] and costlist[i] out of bounds.  nerr ends as the short reads
\* counted by the constructors called, reads as the seeks made and the
\* calls of Read that followed each
LoadBlocks(f, n, own, rl, ns, pre) ==
  LET r == [k \in 1..Len(own) |->
              IF own[k] \notin 0..(n - 1)
              THEN [failed |-> TRUE, nerr |-> 0, nread |-> 0, block |-> <<>>]
              ELSE RestartBlock(f, own[k], k - 1, LeafOffset(f, own[k]),
                                LeafCost(f, own[k]), rl, ns)]
      bad == {k \in 1..Len(own) : r[k].failed}
      stop == IF bad = {} THEN Len(own) + 1
              ELSE CHOOSE k \in bad : \A h \in bad : k <= h
  IN [phase |-> IF bad = {} THEN "built"
                ELSE IF own[stop] \notin 0..(n - 1) THEN "undefined"
                ELSE "fatal",
      blocks |-> [k \in 1..(stop - 1) |-> r[k].block],
      nerr |-> pre + Cardinality({<<k, i>> \in (1..Len(own)) \X (1..GetBlockSizeInBytes) :
                                    k <= stop /\ i <= r[k].nerr}),
      open |-> (bad = {} \/ own[stop] \notin 0..(n - 1)),
      reads |-> [k \in 1..(IF bad = {} THEN Len(own)
                           ELSE IF own[stop] \notin 0..(n - 1) THEN stop - 1
                           ELSE stop) |->
                   <<LeafOffset(f, own[k]), r[k].nread>>]]

\* ========================================================= task scheduler
MaxTasks == 3       \* longest task list (ntask)
MaxLocal == 2       \* most blocks owned by one worker
MaxRounds == 2      \* calls of UpdateOneStep made by each worker
MaxWork == 6        \* most task executions of one round: blocks times tasks

TaskBits == 0..(MaxTasks - 1)

\* struct Task: taskid and depend are bit masks; task i of a list carries the
\* single bit i.  A dependency may name any bit, also one no task of the
\* list produces.
TaskOf(i, dep) == [taskid |-> {i}, depend |-> dep]

\* if((ti.taskid & task_flag)==0L)   this task is not done
NotDoneAlways(ti, flag) == TRUE
NotDone(ti, flag) == ti.taskid \cap flag = {}

\* if (((ti.depend & task_flag) == ti.depend))   dependency clear
DependencyClearAny(ti, flag) ==
  ti.depend = {} \/ ti.depend \cap flag # {}
DependencyClear(ti, flag) == ti.depend \cap flag = ti.depend

\* if(ti.TaskFunc(this,ti.task_arg)==true): the operation reports whether it
\* performed its work; what it reports is decided by its environment (the
\* receive of an exchange task has completed or not) at each invocation
TaskFuncResults == {TRUE, FALSE}
SucceededAlways(r) == TRUE
Succeeded(r) == r = TRUE

\* the body of the success branch: ntodo--, task_flag |= taskid, the cursor
\* moves when nothing was skipped, complete when nothing is left
TaskDoneKeepCount(ti, ft, nt, flag, skip, steps) ==
  [status |-> IF nt = 0 THEN "complete" ELSE "running",
   firsttask |-> IF skip = 0 THEN ft + 1 ELSE ft,
   ntodo |-> nt,
   task_flag |-> flag \cup ti.taskid,
   steps |-> steps]
TaskDoneAdvance(ti, ft, nt, flag, skip, steps) ==
  [status |-> IF nt - 1 = 0 THEN "complete" ELSE "running",
   firsttask |-> ft + 1,
   ntodo |-> nt - 1,
   task_flag |-> flag \cup ti.taskid,
   steps |-> steps]
TaskDone(ti, ft, nt, flag, skip, steps) ==
  [status |-> IF nt - 1 = 0 THEN "complete" ELSE "running",
   firsttask |-> IF skip = 0 THEN ft + 1 ELSE ft,
   ntodo |-> nt - 1,
   task_flag |-> flag \cup ti.taskid,
   steps |-> steps]

\* return stuck, after the loop
LoopEndNothing(ft, nt, flag, steps) ==
  [status |-> "nothing", firsttask |-> ft, ntodo |-> nt, task_flag |-> flag,
   steps |-> steps]
LoopEnd(ft, nt, flag, steps) ==
  [status |-> "stuck", firsttask |-> ft, ntodo |-> nt, task_flag |-> flag,
   steps |-> steps]

\* the loop  for(int i=firsttask; i<ntask; i++)  of DoOneTask: the set of
\* its possible results, one for each way the invoked operations can report.
\* steps lists the invocations of TaskFunc made so far: the task index, the
\* completed mask at the invocation and what the operation reported.
RECURSIVE TaskLoop(_, _, _, _, _, _, _)
TaskLoop(tl, i, ft, nt, flag, skip, steps) ==
  IF i >= Len(tl)
  THEN {LoopEnd(ft, nt, flag, steps)}
  ELSE LET ti == tl[i + 1] IN
       IF NotDone(ti, flag)
       THEN IF DependencyClear(ti, flag)
            THEN UNION {
                   LET st == Append(steps, [i |-> i, flag |-> flag, ok |-> r])
                   IN IF Succeeded(r)
                      THEN {TaskDone(ti, ft, nt, flag, skip, st)}
                      ELSE TaskLoop(tl, i + 1, ft, nt, flag, skip + 1, st)
                   : r \in TaskFuncResults}
            ELSE TaskLoop(tl, i + 1, ft, nt, flag, skip + 1, steps)
       ELSE IF skip = 0
            THEN TaskLoop(tl, i + 1, ft + 1, nt, flag, skip, steps)
            ELSE TaskLoop(tl, i + 1, ft, nt, flag, skip, steps)

\* if(ntodo==0) return nothing;
NothingToDoNever(blk) == FALSE
NothingToDo(blk) == blk.ntodo = 0

\* MeshBlock::DoOneTask on a block whose scheduler state is blk: the set of
\* its possible results
DoOneTask(tl, blk) ==
  IF NothingToDo(blk)
  THEN {[status |-> "nothing", firsttask |-> blk.firsttask,
         ntodo |-> blk.ntodo, task_flag |-> blk.task_flag, steps |-> <<>>]}
  ELSE TaskLoop(tl, blk.firsttask, blk.firsttask, blk.ntodo, blk.task_flag,
                0, <<>>)

\* ================================================================== state
VARIABLES
  \* ---- the Mesh constructors (partition planner)
  mpi,        \* the build defines MPI_PARALLEL
  test_flag,  \* test_flag>0: mesh test only
  nproc,      \* number of workers
  myrank,     \* rank of this worker
  costlist,   \* per-leaf cost, entry gid at costlist[gid+1]; nbtotal is its length
  ranklist,   \* per-leaf rank
  nslist,     \* per-rank first global ID
  nblist,     \* per-rank number of blocks
  nbstart,    \* first global ID owned by this worker
  nbend,      \* last global ID owned by this worker
  phase,      \* "new", then "fatal" (exception), "test" (returned, no blocks) or "built"
  planned,    \* the planner loops of the constructor have run
  adaptive,   \* mesh/refinement is "adaptive"
  ctor,       \* the constructor that ran: "none", "fresh" or "restart"
  pblock,     \* global IDs of the MeshBlocks constructed and linked, in list order
  cout,       \* what the constructor printed: warnings and the MeshTest report
  pin,        \* the parameters of the input file (fresh constructor)
  wire,      \* the wiring of one face: its inputs, then its result
  resfile,   \* the checkpoint stream: the fields of the file, and whether it is open
  nerr,      \* the short reads counted by the restart constructors
  written,   \* the blocks the checkpoint was written from, block gid at written[gid+1]
  reads,     \* the calls of Read on the checkpoint stream: runs <<first position, count>>
  tree,      \* the leaves of the block tree with their global IDs
  list,      \* the linked list of MeshBlocks: Mesh::pblock, prev and next of each block
  step,      \* Mesh::NewTimeStep on every worker: dt, new_block_dt, the reduction
  boot,      \* Mesh::Initialize: position and the calls made on the blocks
  \* ---- the task scheduler, per worker w (a sequence over the workers)
  task,       \* the task list given to every block by Mesh::SetTaskList
  blocks,     \* blocks[w][b]: firsttask, ntodo, task_flag of the b-th block of the list
  pc,         \* position of worker w in its main loop
  nb,         \* UpdateOneStep's count of blocks not yet complete
  pmb,        \* UpdateOneStep's list cursor: index of the block, 0 is NULL
  ncycle,     \* rounds finished by worker w
  sweep,      \* the DoOneTask calls of the current pass over the list: block, status
  last,       \* the latest DoOneTask call: worker, block, state before, result
  ran,        \* ran[w][b]: the tasks whose operation reported success on the
              \* block since the latest reset
  pbval       \* pbval[w][b]: the receives of the block's BoundaryValues

planvars == <<mpi, test_flag, nproc, myrank, costlist, ranklist, nslist, nblist,
              nbstart, nbend, phase, planned, adaptive, ctor, pblock, cout,
              pin,
              wire,
              resfile,
              nerr,
              written,
              reads,
              tree,
              list,
              step,
              boot>>
schedvars == <<task, blocks, pc, nb, pmb, ncycle, sweep, last, ran, pbval>>
vars == <<mpi, test_flag, nproc, myrank, costlist, ranklist, nslist, nblist,
          nbstart, nbend, phase, planned, adaptive, ctor, pblock, cout,
          pin,
          wire,
          resfile,
          nerr,
          written,
          reads,
          tree,
          list,
          step,
          boot,
          task, blocks, pc, nb, pmb, ncycle, sweep, last, ran, pbval>>

NoWire == [status |-> "none"]

\* ---- the list of MeshBlocks.  A block is named by the order of its
\* construction (1, 2, ...); NullPtr is NULL, WildPtr a pointer that was
\* never set.  prev, next and freed (how often the block was destroyed) are
\* indexed by block; pc is the position of the destructor of Mesh
NullPtr == 0
WildPtr == -1
\* no NewTimeStep and no Initialize in progress
NoStep == [pc |-> <<>>]
NoBoot == [pc |-> "none"]
NoList == [pblock |-> WildPtr, pfirst |-> WildPtr, prev |-> <<>>,
           next |-> <<>>, freed |-> <<>>, pc |-> "none"]

\* the loop that creates the blocks k..m and adds each to the list: a new
\* block has prev=next=NULL; the first becomes pblock and pfirst, every other
\* is linked behind pblock and becomes pblock
RECURSIVE LinkLoop(_, _, _)
LinkLoop(k, m, st) ==
  IF k > m THEN st
  ELSE LET made == [st EXCEPT !.prev = Append(st.prev, NullPtr),
                              !.next = Append(st.next, NullPtr),
                              !.freed = Append(st.freed, 0)]
       IN IF k = 1
          THEN LinkLoop(2, m, [made EXCEPT !.pblock = 1, !.pfirst = 1])
          ELSE LinkLoop(k + 1, m, [made EXCEPT !.next[st.pblock] = k,
                                               !.prev[k] = st.pblock,
                                               !.pblock = k])

\* pblock=pfirst after the loop
RewindKeep(st) == st
Rewind(st) == [st EXCEPT !.pblock = st.pfirst]

\* what a pointer that was never set can hold when m blocks exist
Unset(m) == IF m = 0 THEN {NullPtr, WildPtr} ELSE {WildPtr}

\* the list after m blocks were created, pfirst and pblock holding pf
\* before; done: the loop ended and pblock was set to pfirst (an exception
\* in a block constructor leaves the loop)
LinkBlocks(m, done, pf) ==
  LET st == LinkLoop(1, m, [NoList EXCEPT !.pc = "linked", !.pblock = pf,
                                          !.pfirst = pf])
  IN IF done THEN Rewind(st) ELSE st
NoFile == [items |-> <<>>, open |-> FALSE]
NoCall == [w |-> 0, b |-> 0, pre |-> <<>>, res |-> <<>>, ran |-> {}]

\* ---------------------------------------------------- scheduler: inputs
\* every sequence of length 0..n over S
SeqsUpTo(S, n) == UNION {[1..k -> S] : k \in 0..n}

\* the task lists: task i carries bit i and depends on any set of bits (a
\* task before or behind it, itself, a bit no task of the list produces)
TaskLists ==
  {[i \in 1..Len(d) |-> TaskOf(i - 1, d[i])] :
     d \in SeqsUpTo(SUBSET TaskBits, MaxTasks)}

\* the lists in which every task depends on the task before it
ChainLists ==
  {tl \in TaskLists :
     /\ Len(tl) >= 1
     /\ \A i \in 1..Len(tl) : tl[i].depend = (IF i = 1 THEN {} ELSE {i - 2})}

\* blocks owned by each worker: one worker with 1..MaxLocal blocks
Layouts == {<<n>> : n \in 1..MaxLocal}

\* two workers with 1..MaxLocal blocks each
MeshLayouts == {<<n, m>> : n \in 1..MaxLocal, m \in 1..MaxLocal}

Workers == DOMAIN blocks

\* the planner is idle while the scheduler runs
PlanIdle ==
  /\ mpi = TRUE /\ test_flag = 0 /\ nproc = 1 /\ myrank = 0
  /\ costlist = <<>> /\ ranklist = <<>> /\ nslist = <<>> /\ nblist = <<>>
  /\ nbstart = 0 /\ nbend = -1 /\ phase = "built" /\ planned = FALSE
  /\ adaptive = FALSE /\ ctor = "none" /\ pblock = <<>> /\ cout = <<>>
  /\ pin = Config(<<1, 1, 1>>, 1, [f \in Faces |-> 1])
  /\ list = NoList
  /\ boot = NoBoot
  /\ step = NoStep
  /\ tree = {}
  /\ reads = <<>>
  /\ written = <<>>
  /\ nerr = 0
  /\ resfile = NoFile
  /\ wire = NoWire

\* the scheduler state of a block before its first round (MeshBlock
\* constructor: the fields are set by the first UpdateOneStep)
NewBlock == [firsttask |-> 0, ntodo |-> 0, task_flag |-> {}]

\* number of blocks of a layout
RECURSIVE TotalBlocks(_)
TotalBlocks(l) == IF l = <<>> THEN 0 ELSE Head(l) + TotalBlocks(Tail(l))

SchedInit(lists, layouts) ==
  /\ task \in lists
  /\ \E l \in layouts :
       /\ Len(task) * TotalBlocks(l) <= MaxWork
       /\ blocks = [w \in DOMAIN l |-> [b \in 1..l[w] |-> NewBlock]]
       /\ pc = [w \in DOMAIN l |-> "idle"]
       /\ nb = [w \in DOMAIN l |-> 0]
       /\ pmb = [w \in DOMAIN l |-> 0]
       /\ ncycle = [w \in DOMAIN l |-> 0]
       /\ sweep = [w \in DOMAIN l |-> <<>>]
       /\ ran = [w \in DOMAIN l |-> [b \in 1..l[w] |-> {}]]
       /\ pbval = [w \in DOMAIN l |-> [b \in 1..l[w] |-> "idle"]]
  /\ last = NoCall

Init == PlanIdle /\ SchedInit(TaskLists, Layouts)

\* --------------------------------------------------- scheduler: actions
\* Mesh::UpdateOneStep, up to the first test of  while(nb>0):
\* nb=nbend-nbstart+1 and every block of the list is reset
ResetBlock(tl) == [firsttask |-> 0, ntodo |-> Len(tl), task_flag |-> {}]

\* pmb->pbval->StartReceivingAll()  and  pmb->pbval->ClearBoundaryAll(): the
\* state they leave the receives of the block in
StartReceivingAll == "receiving"
ClearBoundaryAll == "cleared"

\* the test  while(nb>0)  at the top of a pass: another pass from the head of
\* the list, or the loop is left
NextPassAlways(n) == "main"
NextPassNever(n) == "clear"
NextPass(n) == IF n > 0 THEN "main" ELSE "clear"

\* pmb=pmb->next  on the b-th of n blocks; 0 is NULL
NextBlockSkip(b, n) == IF b + 1 < n THEN b + 2 ELSE 0
NextBlock(b, n) == IF b < n THEN b + 1 ELSE 0

\* firsttask, ntodo and task_flag are members of the MeshBlock: the writes of
\* DoOneTask (ntodo--, task_flag |= ti.taskid, firsttask++) go to the block
\* the call was made on
StoreBlockShared(bl, w, b, res) ==
  [bl EXCEPT ![w] = [c \in DOMAIN bl[w] |->
                       [firsttask |-> res.firsttask, ntodo |-> res.ntodo,
                        task_flag |-> res.task_flag]]]
StoreBlock(bl, w, b, res) ==
  [bl EXCEPT ![w][b] = [firsttask |-> res.firsttask, ntodo |-> res.ntodo,
                        task_flag |-> res.task_flag]]

UpdateOneStepInit(w) ==
  /\ pc[w] = "idle"
  /\ ncycle[w] < MaxRounds
  /\ blocks' = [blocks EXCEPT ![w] = [b \in DOMAIN blocks[w] |-> ResetBlock(task)]]
  /\ nb' = [nb EXCEPT ![w] = Len(blocks[w])]
  /\ pc' = [pc EXCEPT ![w] = NextPass(Len(blocks[w]))]
  /\ pmb' = [pmb EXCEPT ![w] = IF Len(blocks[w]) > 0 THEN 1 ELSE 0]
  /\ sweep' = [sweep EXCEPT ![w] = <<>>]
  /\ ran' = [ran EXCEPT ![w] = [b \in DOMAIN blocks[w] |-> {}]]
  /\ pbval' = [pbval EXCEPT ![w] = [b \in DOMAIN blocks[w] |-> StartReceivingAll]]
  /\ UNCHANGED <<task, ncycle, last>>
  /\ UNCHANGED planvars

\* one iteration of the inner loop of UpdateOneStep:
\*   if(pmb->DoOneTask()==complete) nb--;  pmb=pmb->next;
\* and, at the end of the list, the test of the outer  while(nb>0)
CallDoOneTask(w) ==
  /\ pc[w] = "main"
  /\ pmb[w] # 0
  /\ \E res \in DoOneTask(task, blocks[w][pmb[w]]) :
       LET b == pmb[w]
           nb1 == IF res.status = "complete" THEN nb[w] - 1 ELSE nb[w]
           nx == NextBlock(b, Len(blocks[w]))
           atEnd == nx = 0
       IN /\ blocks' = StoreBlock(blocks, w, b, res)
          /\ nb' = [nb EXCEPT ![w] = nb1]
          /\ pmb' = [pmb EXCEPT ![w] =
                       IF ~atEnd THEN nx
                       ELSE IF NextPass(nb1) = "main" THEN 1 ELSE 0]
          /\ pc' = [pc EXCEPT ![w] = IF atEnd THEN NextPass(nb1) ELSE "main"]
          /\ sweep' = [sweep EXCEPT ![w] =
                         (IF b = 1 THEN <<>> ELSE @)
                           \o <<[blk |-> b, status |-> res.status]>>]
          /\ last' = [w |-> w, b |-> b, pre |-> blocks[w][b], res |-> res,
                       ran |-> ran[w][b]]
          /\ ran' = [ran EXCEPT ![w][b] =
                       @ \cup {res.steps[k].i : k \in {n \in 1..Len(res.steps) :
                                                         res.steps[n].ok}}]
  /\ UNCHANGED <<task, ncycle, pbval>>
  /\ UNCHANGED planvars

\* the tail of UpdateOneStep: ClearBoundaryAll on every block, return
UpdateOneStepReturn(w) ==
  /\ pc[w] = "clear"
  /\ pc' = [pc EXCEPT ![w] = "returned"]
  /\ pbval' = [pbval EXCEPT ![w] = [b \in DOMAIN blocks[w] |-> ClearBoundaryAll]]
  /\ UNCHANGED <<task, blocks, nb, pmb, ncycle, sweep, last, ran>>
  /\ UNCHANGED planvars

\* the driver that called UpdateOneStep counts the round and calls
\* NewTimeStep, which enters the collective reduction
MainLoopAdvance(w) ==
  /\ pc[w] = "returned"
  /\ ncycle' = [ncycle EXCEPT ![w] = @ + 1]
  /\ pc' = [pc EXCEPT ![w] = "reduce"]
  /\ UNCHANGED <<task, blocks, nb, pmb, sweep, last, ran, pbval>>
  /\ UNCHANGED planvars

\* MPI_Allreduce of NewTimeStep returns on worker w once every worker has
\* entered the same reduction
AllreduceNoWait(w) == TRUE
AllreduceComplete(w) == \A v \in Workers : ncycle[v] >= ncycle[w]

NewTimeStep(w) ==
  /\ pc[w] = "reduce"
  /\ AllreduceComplete(w)
  /\ pc' = [pc EXCEPT ![w] = "idle"]
  /\ UNCHANGED <<task, blocks, nb, pmb, ncycle, sweep, last, ran, pbval>>
  /\ UNCHANGED planvars

Next ==
  \/ \E w \in Workers : UpdateOneStepInit(w)
  \/ \E w \in Workers : CallDoOneTask(w)
  \/ \E w \in Workers : UpdateOneStepReturn(w)
  \/ \E w \in Workers : MainLoopAdvance(w)
  \/ \E w \in Workers : NewTimeStep(w)

Spec == Init /\ [][Next]_vars

\* two workers running the same rounds
MeshInit == PlanIdle /\ SchedInit(ChainLists, MeshLayouts)
MeshSpec == MeshInit /\ [][Next]_vars

\* -------------------------------------------------- the Mesh constructors
\* the scheduler is idle while a constructor runs
SchedIdle ==
  /\ task = <<>> /\ blocks = <<>> /\ pc = <<>> /\ nb = <<>> /\ pmb = <<>>
  /\ ncycle = <<>> /\ sweep = <<>> /\ last = NoCall /\ ran = <<>>
  /\ pbval = <<>>

\* before a constructor: the build, the test flag, the worker count (test
\* mode sets nproc=test_flag; a build without MPI has one worker), this
\* worker's rank, the per-leaf costs of the checkpoint at hand, written by
\* one worker from a row of blocks, and the configuration of the same mesh
PlanInit ==
  /\ costlist \in SeqsUpTo(1..MaxCost, MaxBlocks)
  /\ Len(costlist) >= 1
  /\ pin = Config(<<Len(costlist), 1, 1>>, 1, [f \in Faces |-> 1])
  /\ written = WrittenBlocks(pin, costlist, [i \in 1..Len(costlist) |-> 0], <<0>>)
  /\ resfile = [items |-> WriteRestart(written, IDLENGTH, pin), open |-> TRUE]
  /\ mpi \in BOOLEAN
  /\ test_flag \in 0..MaxProc
  /\ nproc \in 1..MaxProc
  /\ test_flag > 0 => nproc = test_flag
  /\ (test_flag = 0 /\ ~mpi) => nproc = 1
  /\ myrank \in 0..(nproc - 1)
  /\ ranklist = <<>> /\ nslist = <<>> /\ nblist = <<>>
  /\ nbstart = 0 /\ nbend = -1
  /\ phase = "new" /\ planned = FALSE
  /\ adaptive \in BOOLEAN
  /\ ctor = "none" /\ pblock = <<>> /\ cout = <<>>
  /\ wire = NoWire
  /\ nerr = 0
  /\ reads = <<>>
  /\ tree = {}
  /\ list = NoList
  /\ boot = NoBoot
  /\ step = NoStep
  /\ SchedIdle

\* the entries of nslist and nblist the loop stores into: one per run of
\* equal ranks in rl (j counts the runs from 0)
Stored(rl) ==
  1..(1 + Cardinality({i \in 1..(Len(rl) - 1) : rl[i + 1] # rl[i]}))

\* nslist, nblist, nbstart and nbend from the rank list rl; the arrays come
\* from new int[nproc] and hold arbitrary values in the entries the loop
\* does not store into (the loop reads only entries it has stored)
SetStartLists(rl) ==
  LET free == (1..nproc) \ Stored(rl) IN
  \E gs \in [free -> GarbageVals] : \E gb \in [free -> GarbageVals] :
    LET ns0 == [k \in 1..nproc |-> IF k \in free THEN gs[k] ELSE 0]
        nb0 == [k \in 1..nproc |-> IF k \in free THEN gb[k] ELSE 0]
        l == StartCountLists(rl, ns0, nb0)
    IN /\ nslist' = l.nslist
       /\ nblist' = l.nblist
       /\ nbstart' = NbStart(l.nslist, myrank)
       /\ nbend' = NbEnd(l.nslist, myrank, nproc, Len(rl))

\* the same in the restart constructor
RestartSetStartLists(rl) ==
  LET free == (1..nproc) \ Stored(rl) IN
  \E gs \in [free -> GarbageVals] : \E gb \in [free -> GarbageVals] :
    LET ns0 == [k \in 1..nproc |-> IF k \in free THEN gs[k] ELSE 0]
        nb0 == [k \in 1..nproc |-> IF k \in free THEN gb[k] ELSE 0]
        l == RestartStartCountLists(rl, ns0, nb0)
    IN /\ nslist' = l.nslist
       /\ nblist' = l.nblist
       /\ nbstart' = NbStart(l.nslist, myrank)
       /\ nbend' = NbEnd(l.nslist, myrank, nproc, Len(rl))

\* what a constructor prints when the condition holds
Warn(cond, text) == IF cond THEN <<text>> ELSE <<>>

\* the fresh constructor ends before the planner: by an exception ("fatal"),
\* by the division trap ("trap"), or in an undefined state
FreshStop(ph) ==
  /\ phase' = ph
  /\ cout' = <<>>
  /\ pblock' = <<>>
  /\ UNCHANGED <<costlist, ranklist, nslist, nblist, nbstart, nbend, planned,
                 tree, list>>

\* lines 243-631 on the root grid nrb: every cost is 1.0; the planner runs,
\* then (MPI build) too few blocks are fatal unless in test mode, where they
\* are a warning, and an uneven division is a warning; test mode calls
\* MeshTest on rank 0 and returns before any block is made; otherwise the
\* blocks nbstart..nbend are constructed, linked and wired to their neighbors
FreshPlanAndBuild(nrb) ==
  LET t == RootTree(nrb)
      costs == [i \in 1..t.id |-> 1]
      rl == RankList(costs, nproc)
      few == mpi /\ TooFewBlocks(Len(costs), nproc)
      warnings ==
        Warn(few /\ test_flag # 0, "too few blocks")
        \o Warn(mpi /\ UnevenLoad(costs, nproc, adaptive, myrank), "uneven")
  IN /\ tree' = t.leaves
     /\ costlist' = costs
     /\ ranklist' = rl
     /\ SetStartLists(rl)
     /\ planned' = TRUE
     /\ IF few /\ test_flag = 0
        THEN /\ phase' = "fatal"
             /\ cout' = <<>>
             /\ pblock' = <<>>
             /\ UNCHANGED list
        ELSE IF test_flag > 0
        THEN /\ phase' = "test"
             /\ cout' = warnings \o Warn(myrank = 0, "MeshTest")
             /\ pblock' = <<>>
             /\ UNCHANGED list
        ELSE LET own == OwnedIds(nbstart', nbend') IN
             /\ cout' = warnings
             /\ IF \E k \in 1..Len(own) : own[k] \notin 0..(Len(costs) - 1)
                THEN /\ phase' = "undefined"
                     /\ pblock' = <<>>
                     /\ UNCHANGED list
                ELSE /\ phase' = "built"
                     /\ \E pf \in Unset(Len(own)) :
                          list' = LinkBlocks(Len(own), TRUE, pf)
                     /\ pblock' = [k \in 1..Len(own) |->
                                     FreshBlock(pin, nrb, own[k], nbstart',
                                                ranklist', nslist')]

\* Mesh::Mesh(ParameterInput*, int): the checks of the configuration in the
\* order of the code, each fatal; the division by a block size of zero
\* either stops the process or leaves any remainder; then the root grid,
\* the planner and the blocks
FreshConstructor ==
  /\ phase = "new"
  /\ ctor' = "fresh"
  /\ IF \/ BadThreads(pin) \/ BadMeshCells(pin) \/ BadCourant(pin)
        \/ BadExtent(pin) \/ BadRatio(pin)
     THEN FreshStop("fatal")
     ELSE \E trap \in (IF ZeroDivisor(pin) THEN BOOLEAN ELSE {FALSE}) :
            IF trap THEN FreshStop("trap")
            ELSE \E z \in UndefinedRemainders(pin) :
                   IF NotDivisible(Remainder(pin, z)) \/ BlockTooSmall(pin)
                   THEN FreshStop("fatal")
                   ELSE IF ZeroBlock(pin)
                   THEN \E ph \in {"trap", "undefined"} : FreshStop(ph)
                   ELSE FreshPlanAndBuild(RootGrid(pin))
  /\ UNCHANGED <<step, boot, mpi, test_flag, nproc, myrank, adaptive, pin, wire, resfile, nerr, written, reads>>
  /\ UNCHANGED schedvars

\* the calls of Read of the Mesh constructor: the preamble in one run from
\* the start of the stream, then the list of n leaves in one run
PreambleRun == <<<<0, PreambleReads>>>>
MeshRuns(n) == PreambleRun \o <<<<PreambleReads, LeafReads * n>>>>

\* the restart constructor ends by an exception before the planner: the
\* stream is closed first when closed is TRUE; n short reads were counted
\* in the calls of Read rds
RestartStop(closed, n, rds) ==
  /\ reads' = rds
  /\ UNCHANGED list
  /\ phase' = "fatal"
  /\ cout' = <<>>
  /\ pblock' = <<>>
  /\ resfile' = [resfile EXCEPT !.open = resfile.open /\ ~closed]
  /\ nerr' = n
  /\ UNCHANGED <<costlist, ranklist, nslist, nblist, nbstart, nbend, planned>>

\* Mesh::Mesh(ParameterInput*, WrapIO&, int): the thread count is checked;
\* the preamble is read, short reads being fatal after the stream is
\* closed; the ID length and the Courant number are checked; the leaf list
\* is read in the same way; (MPI build) too few blocks are fatal, or in
\* test mode a warning and the end of the constructor, before the planner;
\* otherwise the planner runs, too few blocks are fatal unless in test
\* mode, the start lists are made, test mode calls MeshTest on rank 0 and
\* returns, and otherwise the blocks nbstart..nbend are loaded and linked
RestartConstructor ==
  /\ phase = "new"
  /\ ctor' = "restart"
  /\ LET f == resfile.items
         pre == ShortReads(f, 0, PreambleReads)
         n == Read1(f, 0).v
         idl == Read1(f, 1).v
         mesh_size == Read1(f, 4).v
         lst == ShortReads(f, PreambleReads, LeafReads * n)
         costs == [i \in 1..n |-> LeafCost(f, i - 1)]
         uneven == UnevenLoad(costs, nproc, adaptive, myrank)
     IN
     IF BadThreads(pin) THEN RestartStop(FALSE, 0, <<>>)
     ELSE IF ReadError(pre) THEN RestartStop(TRUE, pre, PreambleRun)
     ELSE IF idl > IDLENGTH THEN RestartStop(FALSE, pre, PreambleRun)
     ELSE IF BadCourant([pin EXCEPT !.nx = mesh_size.nx])
     THEN RestartStop(FALSE, pre, PreambleRun)
     ELSE IF ReadError(lst) THEN RestartStop(TRUE, pre + lst, MeshRuns(n))
     ELSE
     /\ costlist' = costs
     /\ IF mpi /\ TooFewBlocks(n, nproc)
        THEN /\ phase' = IF test_flag = 0 THEN "fatal" ELSE "test"
             /\ cout' = Warn(test_flag # 0, "too few blocks")
             /\ pblock' = <<>>
             /\ nerr' = pre + lst
             /\ reads' = MeshRuns(n)
             /\ UNCHANGED list
             /\ UNCHANGED <<ranklist, nslist, nblist, nbstart, nbend,
                            planned, resfile>>
        ELSE LET rl == RestartRankList(costs, nproc)
                 warnings == Warn(mpi /\ uneven, "uneven")
             IN
             /\ ranklist' = rl
             /\ planned' = TRUE
             /\ IF TooFewBlocks(n, nproc) /\ test_flag = 0
                THEN /\ phase' = "fatal"
                     /\ cout' = warnings
                     /\ pblock' = <<>>
                     /\ nerr' = pre + lst
                     /\ reads' = MeshRuns(n)
                     /\ UNCHANGED list
                     /\ UNCHANGED <<nslist, nblist, nbstart, nbend, resfile>>
                ELSE /\ RestartSetStartLists(rl)
                     /\ IF test_flag > 0
                        THEN /\ phase' = "test"
                             /\ cout' = warnings \o Warn(uneven, "uneven")
                                           \o Warn(myrank = 0, "MeshTest")
                             /\ pblock' = <<>>
                             /\ nerr' = pre + lst
                             /\ reads' = MeshRuns(n)
                             /\ UNCHANGED <<resfile, list>>
                        ELSE LET ld == LoadBlocks(resfile.items, n,
                                                  OwnedIds(nbstart', nbend'),
                                                  ranklist', nslist',
                                                  pre + lst)
                             IN /\ phase' = ld.phase
                                /\ cout' = warnings \o Warn(uneven, "uneven")
                                /\ pblock' = ld.blocks
                                /\ nerr' = ld.nerr
                                /\ reads' = MeshRuns(n) \o ld.reads
                                /\ \E pf \in Unset(Len(ld.blocks)) :
                                     list' = LinkBlocks(Len(ld.blocks),
                                                        ld.phase = "built",
                                                        pf)
                                /\ resfile' = [resfile EXCEPT !.open = ld.open]
  /\ UNCHANGED <<step, boot, mpi, test_flag, nproc, myrank, adaptive, pin, wire, written, tree>>
  /\ UNCHANGED schedvars

PlanNext == FreshConstructor \/ RestartConstructor

PlanSpec == PlanInit /\ [][PlanNext]_vars

\* the scheduler with the operations' reports under the hypothesis that an
\* operation invoked again and again eventually reports success: a call that
\* completes a task is not refused forever
CompleteATask ==
  \E w \in Workers :
    CallDoOneTask(w) /\ last'.res.status \in {"running", "complete"}

\* one worker with MaxLocal blocks
LiveInit == PlanIdle /\ SchedInit(TaskLists, {<<MaxLocal>>})
LiveSpec ==
  LiveInit /\ [][Next]_vars /\ WF_vars(Next) /\ SF_vars(CompleteATask)

\* ================================================= scheduler: properties
Called == last.w # 0

\* the tasks that are incomplete and dependency-satisfied in block state blk
EligibleAt(blk) ==
  {i \in 0..(Len(task) - 1) :
     /\ task[i + 1].taskid \cap blk.task_flag = {}
     /\ task[i + 1].depend \subseteq blk.task_flag}

\* the indices of the tasks whose operation the latest call invoked
InvokedIn(c) == {c.res.steps[k].i : k \in 1..Len(c.res.steps)}

AllIds == UNION {task[i].taskid : i \in 1..Len(task)}

\* every block of worker w has every task id in its completed mask
AllComplete(w) == \A b \in DOMAIN blocks[w] : blocks[w][b].task_flag = AllIds

\* C1: DoOneTask invokes a task's operation only when every bit of the task's
\* dependency mask is set in the block's completed mask, so no operation is
\* invoked before the tasks it depends on have completed.
C1_InvokedOnlyWhenDependenciesDone ==
  Called =>
    \A k \in 1..Len(last.res.steps) :
      LET s == last.res.steps[k] IN
        /\ task[s.i + 1].depend \subseteq s.flag
        /\ s.flag = last.pre.task_flag

\* a task with a dependency was invoked
C1_Witness ==
  /\ Called
  /\ \E k \in 1..Len(last.res.steps) :
       task[last.res.steps[k].i + 1].depend # {}

\* C4 as stated: DoOneTask returns stuck exactly when no task is both
\* incomplete and dependency-satisfied at the time of the call.
C4_StuckIffNoEligibleTask ==
  Called => (last.res.status = "stuck" <=> EligibleAt(last.pre) = {})

\* C4 amended: DoOneTask returns stuck exactly when the block has outstanding
\* tasks and no operation invoked in the call reports success, that is, every
\* incomplete and dependency-satisfied task was invoked and reported that it
\* could not proceed (none, when there is no such task).
C4_StuckIffNoSuccess ==
  Called =>
    (last.res.status = "stuck" <=>
       /\ last.pre.ntodo > 0
       /\ \A k \in 1..Len(last.res.steps) : ~last.res.steps[k].ok
       /\ InvokedIn(last) = EligibleAt(last.pre))

\* a call returned stuck although it invoked an eligible task
C4_Witness ==
  /\ Called
  /\ last.res.status = "stuck"
  /\ last.res.steps # <<>>
  /\ EligibleAt(last.pre) # {}

\* C9: every pass of the main loop calls DoOneTask once on every block in
\* list order, and a call in which an eligible task's operation reports
\* success completes a task, whatever the other calls of the pass returned.
C9_RoundRobinProgress ==
  /\ \A w \in Workers :
       /\ Len(sweep[w]) <= Len(blocks[w])
       /\ \A k \in 1..Len(sweep[w]) : sweep[w][k].blk = k
       /\ (pc[w] = "main" /\ sweep[w] # <<>>)
            => pmb[w] = (Len(sweep[w]) % Len(blocks[w])) + 1
       /\ pc[w] \in {"clear", "returned", "reduce"}
            => Len(sweep[w]) = Len(blocks[w])
  /\ Called =>
       /\ sweep[last.w] # <<>> =>
            sweep[last.w][Len(sweep[last.w])] =
              [blk |-> last.b, status |-> last.res.status]
       /\ (\E k \in 1..Len(last.res.steps) : last.res.steps[k].ok)
            => /\ last.res.status \in {"running", "complete"}
               /\ last.res.ntodo = last.pre.ntodo - 1
               /\ last.res.task_flag # last.pre.task_flag

\* the first block of a pass returned stuck and the second completed a task
C9_Witness ==
  \E w \in Workers :
    /\ Len(sweep[w]) = 2
    /\ sweep[w][1].status = "stuck"
    /\ sweep[w][2].status = "running"
    /\ last.w = w /\ last.b = 2

\* the bits a step adds to the completed mask of block b of worker w
NewBits(w, b) == blocks[w][b].task_flag' \ blocks[w][b].task_flag

\* C10: a bit enters a completed mask only in a DoOneTask call on that block
\* in which the operation of the task with that bit was invoked and reported
\* success; an operation that reports it could not proceed leaves the mask,
\* the outstanding count and the cursor as they were, and the scan goes on
\* to the later tasks in the same call.
C10_Step ==
  /\ \A w \in Workers : \A b \in DOMAIN blocks[w] :
       NewBits(w, b) # {}
         => /\ last'.w = w /\ last'.b = b /\ last'.pre = blocks[w][b]
            /\ \E k \in 1..Len(last'.res.steps) :
                 /\ last'.res.steps[k].ok
                 /\ NewBits(w, b) = task[last'.res.steps[k].i + 1].taskid
  /\ last' # last =>
       LET st == last'.res.steps IN
       \A k \in 1..Len(st) :
         ~st[k].ok =>
           \* the mask is the same at the next invocation, or at the return
           /\ IF k < Len(st) THEN st[k + 1].flag = st[k].flag
              ELSE /\ last'.res.task_flag = st[k].flag
                   /\ last'.res.ntodo = last'.pre.ntodo
                   /\ last'.res.status = "stuck"
           \* the cursor stays at or before the task that could not proceed
           /\ last'.res.firsttask <= st[k].i
           \* the scan goes on: the next eligible task behind it is invoked
           /\ LET later == {j \in EligibleAt(last'.pre) : j > st[k].i} IN
                later # {} =>
                  /\ k < Len(st)
                  /\ \A j \in later : st[k + 1].i <= j

C10_BitSetOnlyOnSuccess == [][C10_Step]_vars

\* an operation could not proceed and a later task of the same call was done
C10_Witness ==
  /\ Called
  /\ Len(last.res.steps) >= 2
  /\ ~last.res.steps[1].ok
  /\ last.res.steps[Len(last.res.steps)].ok
  /\ last.res.status = "running"

\* the task ids reachable from the completed mask flag by running tasks whose
\* dependencies are met, in at most n more steps
RECURSIVE Completable(_, _, _)
Completable(tl, flag, n) ==
  IF n = 0 THEN flag
  ELSE Completable(tl,
         flag \cup UNION {tl[i].taskid :
                            i \in {j \in 1..Len(tl) : tl[j].depend \subseteq flag}},
         n - 1)

\* the dependency graph is acyclic and names only ids of tasks of the list
Satisfiable(tl) ==
  Completable(tl, {}, Len(tl)) = UNION {tl[i].taskid : i \in 1..Len(tl)}

\* C2: for every task list, the empty one included, whose dependency graph
\* is acyclic and names only tasks of the list, and whose operations report
\* success eventually, UpdateOneStep returns with every task id set in the
\* completed mask of every block.
C2_UpdateOneStepTerminates ==
  Satisfiable(task) => <>(pc[1] = "returned" /\ AllComplete(1))

\* (not part of C2) the same for the lists with at least one task
C2_NonEmptyListTerminates ==
  (Satisfiable(task) /\ Len(task) > 0) => <>(pc[1] = "returned" /\ AllComplete(1))

\* the latest pass over the blocks of worker w is finished and completed no task
PassWithoutProgress(w) ==
  /\ Len(sweep[w]) = Len(blocks[w])
  /\ \A k \in 1..Len(sweep[w]) : sweep[w][k].status \in {"stuck", "nothing"}

\* some block of worker w has outstanding tasks and no block has a task that
\* is incomplete and dependency-satisfied: no later call can complete a task
PermanentlyStuck(w) ==
  /\ \E b \in DOMAIN blocks[w] : blocks[w][b].ntodo > 0
  /\ \A b \in DOMAIN blocks[w] : EligibleAt(blocks[w][b]) = {}

\* C3: when a pass completes no task and the blocks are permanently stuck,
\* the driver is in a fatal error state and loops no further.
C3_DeadlockReported ==
  \A w \in Workers :
    (PassWithoutProgress(w) /\ PermanentlyStuck(w)) => pc[w] = "fatal"

\* C11: within one round (between two resets of UpdateOneStep), once the
\* operation of a task has reported success on a block it is not invoked on
\* that block again: no call invokes a task that succeeded since the reset,
\* and a call invokes nothing more after a success.
C11_NoRerunAfterSuccess ==
  Called =>
    /\ InvokedIn(last) \cap last.ran = {}
    /\ \A k \in 1..(Len(last.res.steps) - 1) : ~last.res.steps[k].ok
    /\ \A w \in Workers : \A b \in DOMAIN blocks[w] :
         \A i \in ran[w][b] : task[i + 1].taskid \subseteq blocks[w][b].task_flag

\* a call on a block with a task already done invoked another task
C11_Witness ==
  /\ Called
  /\ last.ran # {}
  /\ last.res.steps # <<>>

\* the tasks of list tl that can never run: on a dependency cycle, behind one,
\* or behind a bit no task of the list produces (0-based indices)
Blocked(tl) ==
  {i \in 0..(Len(tl) - 1) :
     ~(tl[i + 1].taskid \subseteq Completable(tl, {}, Len(tl)))}

\* C12: when the task list has a dependency cycle or a dependency bit that no
\* task produces, the tasks on or behind that dependency are never invoked,
\* no block returns complete (so UpdateOneStep does not return), and once
\* all other tasks of a block are done every call on it returns stuck.
C12_UnsatisfiableStaysStuck ==
  Blocked(task) # {} =>
    /\ \A w \in Workers :
         /\ pc[w] \in {"idle", "main"}
         /\ \A b \in DOMAIN blocks[w] :
              /\ ran[w][b] \cap Blocked(task) = {}
              /\ \A i \in Blocked(task) :
                   task[i + 1].taskid \cap blocks[w][b].task_flag = {}
    /\ Called =>
         /\ InvokedIn(last) \cap Blocked(task) = {}
         /\ last.res.status # "complete"
         /\ (\A i \in 0..(Len(task) - 1) :
               i \in Blocked(task) \/ task[i + 1].taskid \subseteq last.pre.task_flag)
              => last.res.status = "stuck"

\* a list with a task that can run and one that cannot: the first is done and
\* the call returned stuck
C12_Witness ==
  /\ Called
  /\ Blocked(task) # {}
  /\ last.pre.task_flag # {}
  /\ \A i \in 0..(Len(task) - 1) :
       i \in Blocked(task) \/ task[i + 1].taskid \subseteq last.pre.task_flag
  /\ last.res.status = "stuck"

\* rounds begun by worker w: the blocks were reset for that many rounds
RoundsBegun(w) ==
  IF pc[w] \in {"main", "clear", "returned"} THEN ncycle[w] + 1 ELSE ncycle[w]

\* rounds in which every block of worker v completed every task
RoundsCompleted(v) ==
  IF pc[v] \in {"main", "clear", "returned"} /\ AllComplete(v)
  THEN ncycle[v] + 1 ELSE ncycle[v]

IdsOfRank(r) == {g \in 0..(Len(ranklist) - 1) : ranklist[g + 1] = r}

\* C5: the per-rank (start,count) pairs agree with the rank array: for every
\* rank r the range nslist[r] .. nslist[r]+nblist[r]-1 is the set of global
\* IDs whose rank is r, and the owned range nbstart..nbend of this worker is
\* that set for its rank (stated for the constructors that go on to make the
\* blocks, where nbtotal >= nproc).
C5_RangesAgreeWithRankList ==
  (planned /\ phase = "built") =>
    /\ \A r \in 0..(nproc - 1) :
         nslist[r + 1]..(nslist[r + 1] + nblist[r + 1] - 1) = IdsOfRank(r)
    /\ nbstart..nbend = IdsOfRank(myrank)

\* C6: the rank array is a non-decreasing function of the global ID with
\* every entry in 0..nproc-1 (so each rank owns one contiguous run of IDs).
C6_RankListMonotone ==
  planned =>
    /\ \A g \in 1..Len(ranklist) : ranklist[g] \in 0..(nproc - 1)
    /\ \A g \in 1..(Len(ranklist) - 1) : ranklist[g] <= ranklist[g + 1]

\* blocks are spread over at least two ranks
C6_Witness ==
  /\ planned /\ phase = "built"
  /\ \E g \in 1..(Len(ranklist) - 1) : ranklist[g] < ranklist[g + 1]

\* summed cost of the blocks of rank r
RECURSIVE CostOfIds(_)
CostOfIds(ids) ==
  IF ids = {} THEN 0
  ELSE LET g == CHOOSE x \in ids : TRUE
       IN costlist[g + 1] + CostOfIds(ids \ {g})

\* C7: the summed cost of the blocks of rank 0 is at most the average share,
\* total cost / nproc.
C7_MasterAtMostAverage ==
  planned =>
    CostOfIds(IdsOfRank(0)) * nproc <= SumCost(costlist, 1, Len(costlist))

\* rank 0 owns blocks of a list of unequal costs shared by several workers
C7_Witness ==
  /\ planned /\ phase = "built"
  /\ nproc >= 2
  /\ IdsOfRank(0) # {}
  /\ \E g \in 1..Len(costlist) : costlist[g] # costlist[1]

\* C16: for the same cost list and worker count the two copies of the planner
\* agree: what the restart constructor computed (rank array, start and count
\* lists) is what the fresh-run loops compute from the same costs, worker
\* count and array contents, and conversely; the result is a function of the
\* costs and of the current worker count only.
C16_RestartPlannerMatchesFresh ==
  /\ (ctor = "restart" /\ planned) =>
       /\ ranklist = RankList(costlist, nproc)
       /\ phase \in {"test", "built"} =>
            StartCountLists(RankList(costlist, nproc), nslist, nblist)
              = [nslist |-> nslist, nblist |-> nblist]
  /\ (ctor = "fresh" /\ planned) =>
       /\ ranklist = RestartRankList(costlist, nproc)
       /\ phase \in {"test", "built"} =>
            RestartStartCountLists(RestartRankList(costlist, nproc), nslist, nblist)
              = [nslist |-> nslist, nblist |-> nblist]

\* a restart that spread unequal costs over several workers
C16_Witness ==
  /\ ctor = "restart" /\ phase = "built"
  /\ \E g \in 1..(Len(ranklist) - 1) : ranklist[g] < ranklist[g + 1]
  /\ \E g \in 1..Len(costlist) : costlist[g] # costlist[1]

\* C18: with fewer leaves than workers and test mode off, both constructors
\* end in a fatal error with no MeshBlock constructed; in test mode the same
\* condition is not fatal.
C18_TooFewBlocksFatal ==
  (phase # "new" /\ Len(costlist) < nproc) =>
    IF test_flag = 0
    THEN phase = "fatal" /\ pblock = <<>>
    ELSE phase # "fatal"

\* the restart constructor ended in the fatal error for too few blocks
C18_Witness ==
  /\ ctor = "restart" /\ phase = "fatal"
  /\ Len(costlist) < nproc /\ test_flag = 0

\* an advisory condition holds: the block count is not divisible by the
\* worker count with all costs equal, or there are too few blocks in test mode
AdvisoryOnly ==
  /\ \/ /\ Len(costlist) % nproc # 0
        /\ \A g \in 1..Len(costlist) : costlist[g] = costlist[1]
     \/ Len(costlist) < nproc /\ test_flag > 0
  /\ ~(Len(costlist) < nproc /\ test_flag = 0)

\* C20: advisory conditions never abort construction: the constructor is not
\* fatal and goes on as without the warning; in test mode the partition is
\* computed and the MeshTest report is produced (by rank 0), otherwise the
\* blocks are built.
C20_AdvisoryNeverAborts ==
  (phase # "new" /\ AdvisoryOnly) =>
    /\ phase # "fatal"
    /\ planned
    /\ test_flag > 0 =>
         /\ phase = "test"
         /\ myrank = 0 => \E k \in 1..Len(cout) : cout[k] = "MeshTest"
    /\ test_flag = 0 => phase = "built"
\* ------------------------------------------- fresh runs on a root grid
\* before the fresh constructor: the build, the workers (or the test of a
\* mesh for one worker), and a configuration that passes the checks, on any
\* root grid with any boundary tags
FreshInit ==
  /\ mpi \in BOOLEAN
  /\ test_flag \in 0..1
  /\ nproc \in 1..MaxProc
  /\ test_flag > 0 => nproc = test_flag
  /\ (test_flag = 0 /\ ~mpi) => nproc = 1
  /\ myrank \in 0..(nproc - 1)
  /\ costlist = <<>> /\ ranklist = <<>> /\ nslist = <<>> /\ nblist = <<>>
  /\ nbstart = 0 /\ nbend = -1
  /\ phase = "new" /\ planned = FALSE
  /\ adaptive = FALSE
  /\ ctor = "none" /\ pblock = <<>> /\ cout = <<>>
  /\ \E nrb \in Shapes : \E dim \in Dims(nrb) : \E bcs \in [Faces -> Tags] :
       pin = Config(nrb, dim, bcs)
  /\ wire = NoWire
  /\ resfile = NoFile
  /\ nerr = 0
  /\ written = <<>>
  /\ reads = <<>>
  /\ tree = {}
  /\ list = NoList
  /\ boot = NoBoot
  /\ step = NoStep
  /\ SchedIdle

FreshSpec == FreshInit /\ [][FreshConstructor]_vars

\* the block of pblock and the face f of it, on the root grid of pin
LocationOf(b) == Location(b.gid, RootGrid(pin))
EdgeFace(b, f) ==
  LET a == f \div 2 + 1 IN
  IF f % 2 = 0 THEN LocationOf(b)[a] = 0
  ELSE LocationOf(b)[a] = RootGrid(pin)[a] - 1
InactiveFace(f) == f \div 2 + 1 >= 2 /\ pin.nx[f \div 2 + 1] = 1
RecordsOf(b, f) == {r \in b.neighbor : r.dir = f}
Sentinel(f) ==
  [dir |-> f, fi1 |-> 0, fi2 |-> 0,
   rank |-> -1, level |-> -1, gid |-> -1, lid |-> -1]

\* the block at the opposite end of the domain along the axis of face f
OppositeEnd(b, f) ==
  LET a == f \div 2 + 1
      nrb == RootGrid(pin)
  IN GidAt([LocationOf(b) EXCEPT ![a] = IF f % 2 = 0 THEN nrb[a] - 1 ELSE 0],
           nrb)

\* C13: in a fresh run, for every block constructed and every face: a face
\* along an axis of one cell stores the sentinel (-1,-1,-1,-1); a face on an
\* edge of the domain whose tag is not periodic (4) stores the sentinel; a
\* face on a periodic edge of an active axis stores the block at the
\* opposite end of the domain along that axis
C13_EdgeNeighbors ==
  (ctor = "fresh" /\ phase = "built") =>
    \A k \in 1..Len(pblock) : \A f \in Faces :
      LET b == pblock[k] IN
      /\ InactiveFace(f) => RecordsOf(b, f) = {Sentinel(f)}
      /\ (EdgeFace(b, f) /\ pin.bcs[f] # 4) => RecordsOf(b, f) = {Sentinel(f)}
      /\ (EdgeFace(b, f) /\ pin.bcs[f] = 4 /\ ~InactiveFace(f)) =>
           \E r \in RecordsOf(b, f) :
             /\ RecordsOf(b, f) = {r}
             /\ r.gid = OppositeEnd(b, f)
             /\ r.level = RootLevel(RootGrid(pin))
             /\ r.rank = ranklist[r.gid + 1]

\* a block with a periodic edge whose neighbor is another block, a
\* non-periodic edge, and a face along an axis of one cell with periodic tag
C13_Witness ==
  /\ ctor = "fresh" /\ phase = "built"
  /\ \E k \in 1..Len(pblock) : \E f, g, h \in Faces :
       LET b == pblock[k] IN
       /\ EdgeFace(b, f) /\ pin.bcs[f] = 4 /\ ~InactiveFace(f)
       /\ \E r \in RecordsOf(b, f) : r.gid # b.gid /\ r.gid = OppositeEnd(b, f)
       /\ EdgeFace(b, g) /\ pin.bcs[g] # 4 /\ ~InactiveFace(g)
       /\ RecordsOf(b, g) = {Sentinel(g)}
       /\ InactiveFace(h) /\ pin.bcs[h] = 4 /\ RecordsOf(b, h) = {Sentinel(h)}

\* --------------------------------------- fresh runs on any configuration
\* the valid configurations with reflecting boundaries
Grids ==
  UNION {{Config(nrb, dim, [f \in Faces |-> 1]) : dim \in Dims(nrb)} :
           nrb \in Shapes}

\* the configurations with up to two parameters off a valid one; those that
\* pass the checks have a root grid of Shapes
ConfigInput(c) ==
  IF \/ BadThreads(c) \/ BadMeshCells(c) \/ BadCourant(c) \/ BadExtent(c)
     \/ BadRatio(c) \/ ZeroBlock(c) \/ BlockTooSmall(c)
     \/ NotDivisible(Remainder(c, [a \in Axes |-> 0]))
  THEN TRUE
  ELSE RootGrid(c) \in Shapes

ConfigInit ==
  /\ mpi \in BOOLEAN
  /\ test_flag \in 0..1
  /\ nproc = 1
  /\ myrank = 0
  /\ costlist = <<>> /\ ranklist = <<>> /\ nslist = <<>> /\ nblist = <<>>
  /\ nbstart = 0 /\ nbend = -1
  /\ phase = "new" /\ planned = FALSE
  /\ adaptive = FALSE
  /\ ctor = "none" /\ pblock = <<>> /\ cout = <<>>
  /\ \E g \in Grids : \E d \in Variants(g) : \E c \in Variants(d) :
       ConfigInput(c) /\ pin = c
  /\ wire = NoWire
  /\ resfile = NoFile
  /\ nerr = 0
  /\ written = <<>>
  /\ reads = <<>>
  /\ tree = {}
  /\ list = NoList
  /\ boot = NoBoot
  /\ step = NoStep
  /\ SchedIdle

ConfigSpec == ConfigInit /\ [][FreshConstructor]_vars

\* the constraints on the configuration, as the specification lists them
Violated(p) ==
  \/ p.num_threads < 1
  \/ p.nx[1] < 4 \/ p.nx[2] < 1 \/ p.nx[3] < 1
  \/ (p.nx[2] = 1 /\ p.nx[3] > 1)
  \/ (p.nx[2] = 1 /\ p.cfl > 10)
  \/ (p.nx[2] > 1 /\ p.cfl > 5)
  \/ \E a \in Axes : p.xmax[a] <= p.xmin[a]
  \/ \E a \in Axes : p.xrat[a] < 90 \/ p.xrat[a] > 110
  \/ \E a \in Axes : \A q \in 0..p.nx[a] : q * p.bnx[a] # p.nx[a]
  \/ \E a \in Axes : p.nx[a] > 1 /\ p.bnx[a] < 2

\* C17: when the configuration violates a constraint (thread count, cell
\* counts, Courant number, extents, cell size ratio, divisibility of the
\* mesh by the block, block size on an active axis), the fresh constructor
\* ends with a fatal error and no MeshBlock has been constructed
C17_ConfigViolationFatal ==
  (ctor = "fresh" /\ Violated(pin)) => (phase = "fatal" /\ pblock = <<>>)

\* the same holds of every configuration whose block sizes are not zero
ConfigViolationFatalNonzero ==
  (ctor = "fresh" /\ Violated(pin) /\ ~ZeroDivisor(pin)) =>
    (phase = "fatal" /\ pblock = <<>>)

\* a configuration without violation is not refused by a check
ConfigAccepted ==
  (ctor = "fresh" /\ ~Violated(pin) /\ test_flag = 0) => phase = "built"

\* ------------------------------------------- the wiring of one face
\* The wiring of a face as a function of the node FindNeighbor returns.  The
\* tree may hold nodes of any level; a refined node reports a finer level
\* and has children.
Octants == {0, 1} \X {0, 1} \X {0, 1}
ChildGid(o) == o[1] + 2 * o[2] + 4 * o[3]

\* the refined nodes at level l of a mesh with dim active axes: eight
\* children; or, with the x3 axis of one cell, the four children of the
\* plane, alone or standing for the octants above them as well
RefinedNodes(l, dim) ==
  {[null |-> FALSE, level |-> l, gid |-> -1,
    kids |-> {[o |-> o, node |-> Leaf(l, ChildGid(o))] : o \in Octants}]}
  \cup (IF dim = 3 THEN {}
        ELSE {[null |-> FALSE, level |-> l, gid |-> -1,
               kids |-> {[o |-> o, node |-> Leaf(l, ChildGid(o))] :
                           o \in {q \in Octants : q[3] = 0}}],
              [null |-> FALSE, level |-> l, gid |-> -1,
               kids |-> {[o |-> o,
                          node |-> Leaf(l, ChildGid(<<o[1], o[2], 0>>))] :
                           o \in Octants}]})

\* what FindNeighbor can return to a block at level ll
NodesFor(ll, dim) ==
  {NULL}
  \cup {Leaf(l, g) : l \in {ll - 1, ll}, g \in 0..(MaxBlocks - 1)}
  \cup RefinedNodes(ll + 1, dim)

WireInit ==
  /\ mpi = TRUE /\ test_flag = 0 /\ nproc = 1 /\ myrank = 0
  /\ costlist = [g \in 1..8 |-> 1] /\ ranklist = [g \in 1..8 |-> 0]
  /\ nslist = <<0>> /\ nblist = <<8>>
  /\ nbstart = 0 /\ nbend = 7
  /\ phase = "built" /\ planned = TRUE
  /\ adaptive = FALSE /\ ctor = "none" /\ pblock = <<>> /\ cout = <<>>
  /\ \E dim \in 2..3 : \E bcs \in [Faces -> Tags] :
       /\ pin = Config(<<1, 1, 1>>, dim, bcs)
       /\ \E f \in Faces : \E edge \in BOOLEAN : \E n \in NodesFor(1, dim) :
            wire = [status |-> "input", f |-> f, edge |-> edge, neibt |-> n,
                    ll |-> 1, tab |-> {}]
  /\ resfile = NoFile
  /\ nerr = 0
  /\ written = <<>>
  /\ reads = <<>>
  /\ tree = {}
  /\ list = NoList
  /\ boot = NoBoot
  /\ step = NoStep
  /\ SchedIdle

\* lines 443-473 (and their five repetitions) for the face of wire
WireOneFace ==
  /\ wire.status = "input"
  /\ LET w == WireFace({}, wire.f, NoNeighbor(pin, wire.f, wire.edge),
                       wire.neibt, wire.ll, ranklist, nslist)
     IN wire' = [wire EXCEPT !.status = w.status, !.tab = w.tab]
  /\ UNCHANGED <<step, boot, mpi, test_flag, nproc, myrank, costlist, ranklist, nslist,
                 nblist, nbstart, nbend, phase, planned, adaptive, ctor,
                 pblock, cout, pin, resfile, nerr, written, reads, tree, list>>
  /\ UNCHANGED schedvars

WireSpec == WireInit /\ [][WireOneFace]_vars

\* the face of wire has been wired and its neighbor is finer
WiredFiner ==
  /\ wire.status \notin {"none", "input"}
  /\ ~NoNeighbor(pin, wire.f, wire.edge)
  /\ ~wire.neibt.null
  /\ wire.neibt.level > wire.ll

\* the child octants that cover a face: two with two active axes, four with
\* three
Covering == IF pin.nx[3] = 1 THEN 2 ELSE 4

SubFaceIndexes(tab) == {<<r.fi1, r.fi2>> : r \in tab}

RecordsPerFaceButFiner2D ==
  (wire.status \notin {"none", "input"} /\ ~(WiredFiner /\ pin.nx[3] = 1)) =>
    IF WiredFiner
    THEN /\ wire.status = "ok"
         /\ Cardinality(wire.tab) = 4
         /\ SubFaceIndexes(wire.tab) = {0, 1} \X {0, 1}
    ELSE Cardinality(wire.tab) <= 1

\* in a fresh run every face of every block holds exactly one record
FreshOneRecordPerFace ==
  (ctor = "fresh" /\ phase = "built") =>
    \A k \in 1..Len(pblock) : \A f \in Faces :
      Cardinality(RecordsOf(pblock[k], f)) = 1

\* ------------------------------------------- restarts from a checkpoint
\* the root grids of the checkpoints: flat, of at most MaxBlocks blocks
RestartShapes == {nrb \in Shapes : nrb[3] = 1}

\* the blocks a run of wp workers wrote, every cost being 1.0 as in a run
\* the fresh constructor started
Checkpointed(p, wp) ==
  LET costs == [i \in 1..LeafCount(RootGrid(p)) |-> 1]
      rl == RankList(costs, wp)
      l == StartCountLists(rl, [k \in 1..wp |-> 0], [k \in 1..wp |-> 0])
  IN WrittenBlocks(p, costs, rl, l.nslist)

\* before the restart constructor: a checkpoint of a mesh with reflecting or
\* periodic boundaries written by wp workers, of which the first cut fields
\* are on the stream (the whole file, or a file that ends early), or a whole
\* checkpoint of a build of longer IDs; the build, the workers and the rank
\* of the restarted run
RestartInit ==
  /\ \E nrb \in RestartShapes : \E tag \in Tags :
       pin = Config(nrb, IF nrb[2] > 1 THEN 2 ELSE 1, [f \in Faces |-> tag])
  /\ \E wp \in 1..MaxProc :
       /\ wp <= LeafCount(RootGrid(pin))
       /\ written = Checkpointed(pin, wp)
  /\ \E idl \in {IDLENGTH, IDLENGTH + 1} :
       LET full == WriteRestart(written, idl, pin) IN
       \E cut \in (IF idl = IDLENGTH THEN 0..Len(full) ELSE {Len(full)}) :
         resfile = [items |-> SubSeq(full, 1, cut), open |-> TRUE]
  /\ mpi \in BOOLEAN
  /\ test_flag \in 0..1
  /\ nproc \in 1..MaxProc
  /\ test_flag > 0 => nproc = test_flag
  /\ (test_flag = 0 /\ ~mpi) => nproc = 1
  /\ myrank \in 0..(nproc - 1)
  /\ costlist = <<>> /\ ranklist = <<>> /\ nslist = <<>> /\ nblist = <<>>
  /\ nbstart = 0 /\ nbend = -1
  /\ phase = "new" /\ planned = FALSE
  /\ adaptive = FALSE
  /\ ctor = "none" /\ pblock = <<>> /\ cout = <<>>
  /\ wire = NoWire
  /\ nerr = 0
  /\ reads = <<>>
  /\ tree = {}
  /\ list = NoList
  /\ boot = NoBoot
  /\ step = NoStep
  /\ SchedIdle

RestartSpec == RestartInit /\ [][RestartConstructor]_vars

\* C19: a restart that counted a short read on the checkpoint stream (in
\* the preamble, in the list of leaves or in the record of a block) ended in
\* the fatal error, and the stream was closed before the error was raised.
C19_ShortReadFatalAndClosed ==
  (ctor = "restart" /\ nerr > 0) => (phase = "fatal" /\ ~resfile.open)

\* the file ends inside the record of a block this worker loads, after
\* the preamble and the list of leaves were read whole
C19_Witness ==
  /\ ctor = "restart" /\ phase = "fatal" /\ ~resfile.open
  /\ nerr > 0
  /\ planned
  /\ Len(resfile.items) > PreambleReads + LeafReads * Len(costlist)

\* the file ends inside the preamble
ShortPreamble ==
  /\ ctor = "restart" /\ phase = "fatal" /\ ~resfile.open
  /\ nerr > 0 /\ Len(resfile.items) < PreambleReads

\* the file ends inside the list of leaves
ShortLeafList ==
  /\ ctor = "restart" /\ phase = "fatal" /\ ~resfile.open
  /\ nerr > 0 /\ ~planned
  /\ Len(resfile.items) >= PreambleReads

\* a fatal error that is not a short read leaves the stream open
FatalOpenOnlyWithoutShortRead ==
  (ctor = "restart" /\ phase = "fatal" /\ resfile.open) => nerr = 0

\* ---- the round trip of a checkpoint
\* the restart built its blocks from the whole file
Restored == ctor = "restart" /\ phase = "built"

\* the block the checkpoint was written from
WrittenOf(b) == written[b.gid + 1]

\* a neighbor record without the worker-dependent part
Link(r) == [dir |-> r.dir, fi1 |-> r.fi1, fi2 |-> r.fi2, level |-> r.level,
            gid |-> r.gid]

\* extents, boundary tags, positions, spacings and fields of the two blocks
\* are the same
SameData(b, w) ==
  /\ b.block_size = w.block_size
  /\ b.block_bcs = w.block_bcs
  /\ b.x1f = w.x1f /\ b.x2f = w.x2f /\ b.x3f = w.x3f
  /\ b.dx1f = w.dx1f /\ b.dx2f = w.dx2f /\ b.dx3f = w.dx3f
  /\ b.u = w.u

\* C15 as stated: every restored block has the extents, the boundary tags,
\* the neighbor table (rank and local ID of every record included) and the
\* fields of the block that was written, whatever the worker count of the
\* restart.
C15_RoundTripIdentical ==
  Restored =>
    \A k \in 1..Len(pblock) :
      /\ SameData(pblock[k], WrittenOf(pblock[k]))
      /\ pblock[k].neighbor = WrittenOf(pblock[k]).neighbor

\* C15, amended: every restored block has the extents, the boundary tags,
\* the positions and the fields of the block that was written, and a
\* neighbor table with the same records up to rank and local ID; the rank
\* of a neighbor is its entry of the rank list of the restart, its local ID
\* is its global ID less the first global ID of that rank, and a record
\* without neighbor (gid -1) is as written.
C15_RoundTripUpToRanks ==
  Restored =>
    \A k \in 1..Len(pblock) :
      LET b == pblock[k]
          w == WrittenOf(b)
      IN /\ SameData(b, w)
         /\ b.gid = w.gid /\ b.cost = w.cost
         /\ {Link(r) : r \in b.neighbor} = {Link(r) : r \in w.neighbor}
         /\ Cardinality(b.neighbor) = Cardinality(w.neighbor)
         /\ \A r \in b.neighbor :
              IF r.gid = -1 THEN r \in w.neighbor
              ELSE /\ r.rank = ranklist[r.gid + 1]
                   /\ r.lid = r.gid - nslist[r.rank + 1]

\* a restart with another worker count than the run that wrote the file:
\* a block was restored whose neighbor is on another rank than it was
C15_Witness ==
  /\ Restored
  /\ \E k \in 1..Len(pblock) :
       \E r \in pblock[k].neighbor : \E q \in WrittenOf(pblock[k]).neighbor :
         /\ Link(r) = Link(q)
         /\ r.gid # -1
         /\ r.rank # q.rank

\* with the worker count of the writer (no neighbor changes its rank), the
\* restored neighbor tables are the written ones
SameRanksSameTable ==
  (Restored /\ \A g \in 1..Len(written) : \A q \in written[g].neighbor :
                 q.gid # -1 => q.rank = ranklist[q.gid + 1])
    => \A k \in 1..Len(pblock) :
         pblock[k].neighbor = WrittenOf(pblock[k]).neighbor

\* ---- what a restart reads
\* the runs of Read the block constructors made, one per seek
BlockRuns == SubSeq(reads, 3, Len(reads))

\* the leaves whose record starts at the position pos of the stream
LeavesAt(pos) ==
  {g \in 0..(Len(costlist) - 1) : LeafOffset(resfile.items, g) = pos}

\* C21: a restart seeks to and reads the records of the blocks this worker
\* owns only: every record read is that of a leaf of nbstart..nbend, and no
\* record read is that of a leaf the rank list gives to another worker.
C21_ReadsOnlyOwnRecords ==
  (ctor = "restart" /\ planned) =>
    \A k \in 1..Len(BlockRuns) :
      \E g \in LeavesAt(BlockRuns[k][1]) :
        /\ g \in nbstart..nbend
        /\ ranklist[g + 1] = myrank

\* every record read is that of a leaf of nbstart..nbend, in ascending order
\* from nbstart, and it is read from its stored offset on
ReadsOwnRangeInOrder ==
  (ctor = "restart" /\ planned) =>
    \A k \in 1..Len(BlockRuns) :
      /\ nbstart + k - 1 \in nbstart..nbend
      /\ BlockRuns[k][1] = LeafOffset(resfile.items, nbstart + k - 1)
      /\ BlockRuns[k][2] <= GetBlockSizeInBytes

\* with the same cost for every block and no more workers than blocks, no
\* record of a leaf of another worker is read
UniformReadsOnlyOwnRecords ==
  (/\ \A g \in 1..Len(costlist) : costlist[g] = costlist[1]
   /\ Len(costlist) >= nproc)
    => C21_ReadsOnlyOwnRecords

\* C30: after the first short read on the checkpoint stream no further read
\* is issued on it: a read at or past the end of the stream is the last call
\* of Read the restart made.
C30_NoReadAfterShortRead ==
  ctor = "restart" =>
    \A k \in 1..Len(reads) : \A i \in 0..(reads[k][2] - 1) :
      reads[k][1] + i >= Len(resfile.items)
        => (k = Len(reads) /\ i = reads[k][2] - 1)

\* after a short read the calls of Read that remain in the group are made
\* (the rest of the preamble, of the list of leaves, or of the group of the
\* block record), and none after the group: the run with the short read is
\* the last, and no run before it ends past the stream
NoReadAfterGroupOfShortRead ==
  ctor = "restart" =>
    \A k \in 1..(Len(reads) - 1) :
      reads[k][1] + reads[k][2] <= Len(resfile.items)

\* ------------------------------------------- the tree of a root grid
\* before the fresh constructor in the test of a mesh for test_flag
\* workers (no block is made): a configuration that passes the checks on
\* any root grid of up to MaxGrid blocks per axis and MaxGrid^2 blocks
TreeInit ==
  /\ mpi \in BOOLEAN
  /\ test_flag \in 1..MaxProc /\ nproc = test_flag /\ myrank = 0
  /\ costlist = <<>> /\ ranklist = <<>> /\ nslist = <<>> /\ nblist = <<>>
  /\ nbstart = 0 /\ nbend = -1
  /\ phase = "new" /\ planned = FALSE
  /\ adaptive = FALSE
  /\ ctor = "none" /\ pblock = <<>> /\ cout = <<>>
  /\ \E nrb \in (1..MaxGrid) \X (1..MaxGrid) \X (1..MaxGrid) :
       /\ LeafCount(nrb) <= MaxGrid * MaxGrid
       /\ \E dim \in Dims(nrb) : \E tag \in Tags :
            pin = Config(nrb, dim, [f \in Faces |-> tag])
  /\ wire = NoWire
  /\ resfile = NoFile
  /\ nerr = 0
  /\ written = <<>>
  /\ reads = <<>>
  /\ tree = {}
  /\ list = NoList
  /\ boot = NoBoot
  /\ step = NoStep
  /\ SchedIdle

TreeSpec == TreeInit /\ [][FreshConstructor]_vars

\* C22: on a valid root grid of nrbx1 x nrbx2 x nrbx3 blocks the tree has
\* exactly nrbx1*nrbx2*nrbx3 leaves (the count AssignGID returns as nbtotal),
\* one on every block of the grid, and their global IDs are pairwise
\* distinct and together exactly 0..N-1.
C22_LeavesAndGlobalIds ==
  (ctor = "fresh" /\ planned) =>
    LET nrb == RootGrid(pin)
        N == nrb[1] * nrb[2] * nrb[3]
    IN /\ Cardinality(tree) = N
       /\ Len(costlist) = N
       /\ {l.gid : l \in tree} = 0..(N - 1)
       /\ \A l \in tree : \A m \in tree : l.gid = m.gid => l = m
       /\ {l.lx : l \in tree}
            = (0..(nrb[1] - 1)) \X (0..(nrb[2] - 1)) \X (0..(nrb[3] - 1))
       /\ \A l \in tree : l.level = RootLevel(nrb)

\* a tree of a grid whose sides are not powers of two
C22_Witness ==
  /\ ctor = "fresh" /\ planned
  /\ RootGrid(pin) = <<3, 2, 2>>
  /\ Cardinality(tree) = 12

\* on the root grids the blocks are made on (a row, or at most two blocks
\* per axis) the traversal numbers the leaves along x1 first, then x2, x3
LeavesRowMajor ==
  (ctor = "fresh" /\ planned /\ RootGrid(pin) \in Shapes) =>
    \A l \in tree : l.lx = Location(l.gid, RootGrid(pin))

\* ------------------------------------------- the list of MeshBlocks
\* the blocks reached from the block p by n steps along next, in order
RECURSIVE Walk(_, _)
Walk(p, n) ==
  IF n = 0 \/ p \notin DOMAIN list.next THEN <<>>
  ELSE <<p>> \o Walk(list.next[p], n - 1)

\* the blocks that exist
Live == {b \in DOMAIN list.next : list.freed[b] = 0}

\* head's prev is null, tail's next is null, b->next->prev == b for every
\* other block, and the walk from h along next meets every block once
WellFormedFrom(h) ==
  LET w == Walk(h, Cardinality(Live)) IN
  /\ Len(w) = Cardinality(Live)
  /\ {w[k] : k \in 1..Len(w)} = Live
  /\ list.prev[h] = NullPtr
  /\ list.next[w[Len(w)]] = NullPtr
  /\ \A k \in 1..(Len(w) - 1) : list.prev[list.next[w[k]]] = w[k]

\* C23: after a non-test construction pblock points to the head of a
\* well-formed doubly linked list that holds exactly the blocks with the
\* global IDs nbstart..nbend in ascending order, each with local ID
\* global ID - nbstart.
C23_BlockListWellFormed ==
  phase = "built" =>
    /\ list.pblock \in Live
    /\ WellFormedFrom(list.pblock)
    /\ LET w == Walk(list.pblock, Cardinality(Live)) IN
       /\ Len(w) = nbend - nbstart + 1
       /\ \A k \in 1..Len(w) :
            /\ pblock[w[k]].gid = nbstart + k - 1
            /\ pblock[w[k]].lid = pblock[w[k]].gid - nbstart

\* the same when the worker owns a block at least
BlockListWellFormedIfOwned ==
  nbstart <= nbend => C23_BlockListWellFormed

\* a constructor ended with an empty range and left pblock as it was
EmptyRangeBuilt ==
  /\ phase = "built" /\ nbend < nbstart
  /\ list.pblock \in {NullPtr, WildPtr}

\* a list of several blocks was built
SeveralBlocksLinked ==
  /\ phase = "built" /\ Cardinality(Live) >= 2
  /\ WellFormedFrom(list.pblock)

\* ---- the destructors
\* MeshBlock::~MeshBlock on the block b: prev->next=next and next->prev=prev
\* where they are not NULL
UnlinkForwardOnly(st, b) ==
  IF st.prev[b] # NullPtr THEN [st EXCEPT !.next[st.prev[b]] = st.next[b]]
  ELSE st
Unlink(st, b) ==
  LET fwd == IF st.prev[b] # NullPtr
             THEN [st EXCEPT !.next[st.prev[b]] = st.next[b]]
             ELSE st
  IN IF st.next[b] # NullPtr
     THEN [fwd EXCEPT !.prev[st.next[b]] = st.prev[b]]
     ELSE fwd

\* delete b, then the destructor of Mesh goes on at pc; the delete of a
\* block that was destroyed before is undefined
Delete(b, pc_) ==
  list' = IF list.freed[b] > 0
          THEN [list EXCEPT !.freed[b] = 2, !.pc = "undefined"]
          ELSE [Unlink(list, b) EXCEPT !.freed[b] = 1, !.pc = pc_]

\* before Mesh::~Mesh: a list of 1..MaxList blocks as the constructors link
\* them, pblock pointing to any of them
ListInit ==
  /\ mpi = TRUE /\ test_flag = 0 /\ nproc = 1 /\ myrank = 0
  /\ costlist = <<>> /\ ranklist = <<>> /\ nslist = <<>> /\ nblist = <<>>
  /\ nbstart = 0 /\ nbend = -1 /\ phase = "built" /\ planned = FALSE
  /\ adaptive = FALSE /\ ctor = "none" /\ pblock = <<>> /\ cout = <<>>
  /\ pin = Config(<<1, 1, 1>>, 1, [f \in Faces |-> 1])
  /\ \E m \in 1..MaxList : \E p \in 1..m :
       list = [LinkBlocks(m, TRUE, WildPtr) EXCEPT !.pblock = p,
                                                   !.pc = "prev"]
  /\ tree = {}
  /\ reads = <<>>
  /\ written = <<>>
  /\ nerr = 0
  /\ resfile = NoFile
  /\ wire = NoWire
  /\ step = NoStep
  /\ boot = NoBoot
  /\ SchedIdle

ListUnchanged ==
  /\ UNCHANGED <<step, boot, mpi, test_flag, nproc, myrank, costlist, ranklist, nslist,
                 nblist, nbstart, nbend, phase, planned, adaptive, ctor,
                 pblock, cout, pin, resfile, nerr, written, reads, tree,
                 wire>>
  /\ UNCHANGED schedvars

\* while(pblock->prev != NULL) delete pblock->prev;
DeletePrev ==
  /\ list.pc = "prev"
  /\ IF list.prev[list.pblock] # NullPtr
     THEN Delete(list.prev[list.pblock], "prev")
     ELSE list' = [list EXCEPT !.pc = "next"]
  /\ ListUnchanged

\* while(pblock->next != NULL) delete pblock->next;
DeleteNext ==
  /\ list.pc = "next"
  /\ IF list.next[list.pblock] # NullPtr
     THEN Delete(list.next[list.pblock], "next")
     ELSE list' = [list EXCEPT !.pc = "last"]
  /\ ListUnchanged

\* delete pblock;
DeleteLast ==
  /\ list.pc = "last"
  /\ Delete(list.pblock, "done")
  /\ ListUnchanged

ListNext == DeletePrev \/ DeleteNext \/ DeleteLast

\* the destructor is a sequential program: it goes on while it can
ListSpec == ListInit /\ [][ListNext]_vars /\ WF_vars(ListNext)

\* the blocks that remain form a well-formed list that holds pblock, no
\* block was destroyed twice, and at the end every block was destroyed
TeardownSafe ==
  /\ list.pc # "undefined"
  /\ \A b \in DOMAIN list.freed : list.freed[b] <= 1
  /\ list.pc # "done" =>
       /\ list.pblock \in Live
       /\ \E h \in Live : WellFormedFrom(h)
  /\ list.pc = "done" => Live = {}

\* C24: the destructor of a block unlinks it so that the blocks that remain
\* form a well-formed doubly linked list, and the destructor of Mesh ends
\* with every block of the list destroyed exactly once, whichever block
\* pblock points to, for every length of the list from 1 on.
C24_TeardownDestroysEachOnce ==
  /\ []TeardownSafe
  /\ <>(list.pc = "done")

\* the destructor ended on a list of three blocks at least, pblock being
\* neither its head nor its tail
C24_Witness ==
  /\ list.pc = "done"
  /\ Len(list.freed) >= 3
  /\ list.pblock \notin {1, Len(list.freed)}
  /\ \A b \in DOMAIN list.freed : list.freed[b] = 1

\* ---- the partition of blocks of equal cost
\* C28: with the same cost for every block and at least as many blocks as
\* workers, every rank receives floor(N/P) or ceil(N/P) consecutive blocks,
\* hence exactly N/P when P divides N.
C28_UniformPartitionBalanced ==
  (ctor = "fresh" /\ planned /\ Len(costlist) >= nproc) =>
    LET N == Len(costlist)
        lo == N \div nproc
        hi == (N + nproc - 1) \div nproc
    IN \A r \in 0..(nproc - 1) :
         /\ Cardinality(IdsOfRank(r)) \in {lo, hi}
         /\ \A g \in IdsOfRank(r) : \A h \in IdsOfRank(r) :
              \A m \in g..h : m \in IdsOfRank(r)

\* the four blocks of the 2 x 2 root grid on two workers: ranks 0,0,1,1
C28_Witness ==
  /\ ctor = "fresh" /\ planned
  /\ RootGrid(pin) = <<2, 2, 1>> /\ nproc = 2
  /\ ranklist = <<0, 0, 1, 1>>

\* a block count the worker count does not divide: ranks of both sizes
UnevenButBalanced ==
  /\ ctor = "fresh" /\ planned /\ nproc = 3 /\ Len(costlist) = 8
  /\ {Cardinality(IdsOfRank(r)) : r \in 0..2} = {2, 3}

\* ---- the cursor of a block
\* the index (from 0) of the first task of the list whose bit is not in the
\* mask flag; the length of the list when every bit is in it
FirstIncomplete(flag) ==
  LET open == {i \in 0..(Len(task) - 1) : task[i + 1].taskid \cap flag = {}}
  IN IF open = {} THEN Len(task)
     ELSE CHOOSE i \in open : \A k \in open : i <= k

\* C29: immediately after a DoOneTask call that returns `running`, the
\* cursor firsttask is the index of the first task whose bit is not in the
\* completed mask.
C29_CursorAtFirstIncomplete ==
  (Called /\ last.res.status = "running") =>
    last.res.firsttask = FirstIncomplete(last.res.task_flag)

\* after every call the cursor is at or before the first task that is not
\* complete: every task before the cursor is complete
CursorWithinCompletedPrefix ==
  Called => last.res.firsttask <= FirstIncomplete(last.res.task_flag)

\* the cursor of every block is at or before its first incomplete task
CursorNeverPastIncomplete ==
  \A w \in Workers : \A b \in DOMAIN blocks[w] :
    pc[w] = "main" =>
      blocks[w][b].firsttask <= FirstIncomplete(blocks[w][b].task_flag)

\* a call returned `running` with the cursor before a task completed earlier
CursorBehind ==
  /\ Called /\ last.res.status = "running"
  /\ last.res.firsttask < FirstIncomplete(last.res.task_flag)

\* ------------------------------------------- scheduler: frame of DoOneTask
AllTaskIds == UNION {task[i].taskid : i \in 1..Len(task)}

\* C27: a DoOneTask call on block b of worker w leaves the cursor, the
\* outstanding count and the completed mask of every other block, of this and
\* of every other worker, and the task array as they were, and what it writes
\* to b is a result of DoOneTask on the state of b alone; so when the pass that
\* ends the round returns, every block has completed every task of the list,
\* whichever blocks were visited before it.
C27_Step ==
  last' # last =>
    /\ \A w \in Workers : \A c \in DOMAIN blocks[w] :
         (w # last'.w \/ c # last'.b) => blocks'[w][c] = blocks[w][c]
    /\ task' = task
    /\ DOMAIN blocks' = DOMAIN blocks
    /\ \A w \in Workers : DOMAIN blocks'[w] = DOMAIN blocks[w]
    /\ last'.res \in DoOneTask(task, blocks[last'.w][last'.b])
    /\ blocks'[last'.w][last'.b] =
         [firsttask |-> last'.res.firsttask, ntodo |-> last'.res.ntodo,
          task_flag |-> last'.res.task_flag]
    /\ pc'[last'.w] = "clear" =>
         \A c \in DOMAIN blocks'[last'.w] :
           /\ blocks'[last'.w][c].task_flag = AllTaskIds
           /\ blocks'[last'.w][c].ntodo = 0

C27_BlocksShareNoSchedulerState == [][C27_Step]_vars

\* a call changed its block while another block of the same worker, in a
\* different state, stayed as it was
C27_Witness ==
  /\ Called
  /\ last.res.task_flag # last.pre.task_flag
  /\ \E c \in DOMAIN blocks[last.w] :
       /\ c # last.b
       /\ blocks[last.w][c].task_flag # blocks[last.w][last.b].task_flag
       /\ blocks[last.w][c].task_flag # last.pre.task_flag
       /\ blocks[last.w][c].firsttask # blocks[last.w][last.b].firsttask

\* the blocks of one worker end the round with the same completed set after
\* different numbers of calls
RoundEndsAlike ==
  \A w \in Workers :
    pc[w] \in {"clear", "returned"} =>
      \A c \in DOMAIN blocks[w] : blocks[w][c].task_flag = AllTaskIds

\* ================================================== Mesh::NewTimeStep
\* Real values are modelled on a grid of integers: FltMax is the largest
\* finite value, Inf what an overflowing product gives; cfl_number is
\* cfl/CflDen, at most 1 (the constructors reject a larger one)
MaxDt == 3          \* largest recommended step of a block
StepWorkers == 2    \* most workers in the reduction
StepBlocks == 3     \* most blocks of all workers together
FltMax == 10
CflDen == 2
Inf == FltMax + 1

\* dt = (FLT_MAX*0.4)  of the constructor
InitialDt == (FltMax * 4) \div 10

\* std::min(a,b): b if b<a, else a
StdMin(a, b) == IF b < a THEN b ELSE a

\* min_dt*cfl_number, rounded to the nearest value of the grid, ties to even
Mul(m, c) ==
  LET q == (m * c) \div CflDen
      r == (m * c) % CflDen
  IN IF 2 * r < CflDen THEN q
     ELSE IF 2 * r > CflDen THEN q + 1
     ELSE IF q % 2 = 0 THEN q ELSE q + 1

\* 2.0*dt: exact, or infinite on overflow
Twice(d) == IF 2 * d > FltMax THEN Inf ELSE 2 * d

\* the loop over the list: min_dt starts as the first block's new_block_dt
RECURSIVE LoopMin(_, _, _)
LoopMin(bdt, k, m) ==
  IF k > Len(bdt) THEN m ELSE LoopMin(bdt, k + 1, StdMin(m, bdt[k]))

LocalMin(bdt) == LoopMin(bdt, 2, bdt[1])

\* MPI_Allreduce(MPI_IN_PLACE,&min_dt,1,MPI_ATHENA_REAL,MPI_MIN,...): what
\* worker w finds in min_dt afterwards
AllreduceOwn(w, md) == md[w]
Allreduce(w, md) == CHOOSE m \in {md[v] : v \in DOMAIN md} :
                      \A v \in DOMAIN md : m <= md[v]

\* dt=std::min(min_dt*cfl_number,2.0*dt)
SetDt(m, c, d) == StdMin(Mul(m, c), Twice(d))

\* every assignment of a recommended step to the blocks of the first k
\* workers of a layout
RECURSIVE BlockDtsUpTo(_, _)
BlockDtsUpTo(lay, k) ==
  IF k = 0 THEN {<<>>}
  ELSE {Append(f, d) : f \in BlockDtsUpTo(lay, k - 1),
                       d \in [1..lay[k] -> 1..MaxDt]}

BlockDts(lay) == BlockDtsUpTo(lay, Len(lay))

\* the number of blocks of each of n workers, at least one each and at most
\* left together
RECURSIVE LayoutsOf(_, _)
LayoutsOf(n, left) ==
  IF n = 0 THEN {<<>>}
  ELSE UNION {{Append(lay, m) : lay \in LayoutsOf(n - 1, left - m)} :
                m \in 1..(left - (n - 1))}

\* a build without MPI has one worker
StepLayouts(build) ==
  UNION {LayoutsOf(n, StepBlocks) :
           n \in 1..(IF build THEN StepWorkers ELSE 1)}

StepWorkerSet == DOMAIN step.pc

\* at a call of NewTimeStep: every worker has the same dt (the constructor's,
\* the one read from the restart file or the one of the step before) and every
\* block the recommended step that NewBlockTimeStep left in new_block_dt
StepInit ==
  /\ mpi \in BOOLEAN /\ test_flag = 0 /\ myrank = 0
  /\ \E lay \in StepLayouts(mpi) : \E bd \in BlockDts(lay) :
     \E c \in 1..CflDen : \E d \in {InitialDt} \cup 1..MaxDt :
       /\ nproc = Len(lay)
       /\ step = [pc |-> [w \in DOMAIN lay |-> "loop"],
                  dt |-> [w \in DOMAIN lay |-> d],
                  prev |-> [w \in DOMAIN lay |-> d],
                  min_dt |-> [w \in DOMAIN lay |-> 0],
                  new_block_dt |-> bd, cfl |-> c]
  /\ costlist = <<>> /\ ranklist = <<>> /\ nslist = <<>> /\ nblist = <<>>
  /\ nbstart = 0 /\ nbend = -1 /\ phase = "built" /\ planned = FALSE
  /\ adaptive = FALSE /\ ctor = "none" /\ pblock = <<>> /\ cout = <<>>
  /\ pin = Config(<<1, 1, 1>>, 1, [f \in Faces |-> 1])
  /\ list = NoList /\ boot = NoBoot
  /\ tree = {} /\ reads = <<>> /\ written = <<>> /\ nerr = 0
  /\ resfile = NoFile /\ wire = NoWire
  /\ SchedIdle

StepUnchanged ==
  /\ UNCHANGED <<boot, mpi, test_flag, nproc, myrank, costlist, ranklist,
                 nslist, nblist, nbstart, nbend, phase, planned, adaptive,
                 ctor, pblock, cout, pin, resfile, nerr, written, reads, tree,
                 wire, list>>
  /\ UNCHANGED schedvars

\* NewTimeStep on worker w up to the reduction; a build without MPI has no
\* reduction and sets dt at once
NewTimeStepLoop(w) ==
  /\ step.pc[w] = "loop"
  /\ LET m == LocalMin(step.new_block_dt[w]) IN
       step' = IF mpi
               THEN [step EXCEPT !.min_dt[w] = m, !.pc[w] = "allreduce"]
               ELSE [step EXCEPT !.min_dt[w] = m, !.pc[w] = "done",
                                 !.prev[w] = step.dt[w],
                                 !.dt[w] = SetDt(m, step.cfl, step.dt[w])]
  /\ StepUnchanged

\* the reduction returns on worker w once every worker has entered it; the
\* result replaces min_dt in place, then dt is set
NewTimeStepAllreduce(w) ==
  /\ step.pc[w] = "allreduce"
  /\ \A v \in StepWorkerSet : step.pc[v] \in {"allreduce", "done"}
  /\ LET m == Allreduce(w, step.min_dt) IN
       step' = [step EXCEPT !.min_dt[w] = m, !.pc[w] = "done",
                            !.prev[w] = step.dt[w],
                            !.dt[w] = SetDt(m, step.cfl, step.dt[w])]
  /\ StepUnchanged

StepNext ==
  \/ \E w \in StepWorkerSet : NewTimeStepLoop(w)
  \/ \E w \in StepWorkerSet : NewTimeStepAllreduce(w)

StepSpec == StepInit /\ [][StepNext]_vars

\* the recommended steps of all blocks of all workers
AllBlockDts ==
  {step.new_block_dt[w][b] :
     <<w, b>> \in {x \in StepWorkerSet \X (1..StepBlocks) :
                     x[2] <= Len(step.new_block_dt[x[1]])}}

GlobalMinDt == CHOOSE m \in AllBlockDts : \A d \in AllBlockDts : m <= d

\* C26: when NewTimeStep has returned on a worker, its dt is the smaller of
\* cfl_number times the minimum recommended step over all blocks of all
\* workers and twice its previous dt; it is the dt of every other worker
\* that has returned, it is at most cfl_number times the recommended step of
\* any block, and at most twice the previous dt.
C26_NewTimeStepMinRule ==
  \A w \in StepWorkerSet :
    step.pc[w] = "done" =>
      /\ step.dt[w] = StdMin(Mul(GlobalMinDt, step.cfl), Twice(step.prev[w]))
      /\ \A v \in StepWorkerSet : step.pc[v] = "done" => step.dt[v] = step.dt[w]
      /\ \A d \in AllBlockDts : step.dt[w] <= Mul(d, step.cfl)
      /\ step.dt[w] <= Twice(step.prev[w])
      /\ step.dt[w] <= 2 * step.prev[w]

\* two workers have returned; the step is cfl_number times the recommended
\* step of a block that the other worker owns, below twice the previous dt
C26_Witness ==
  /\ Cardinality(StepWorkerSet) = 2
  /\ \A w \in StepWorkerSet : step.pc[w] = "done"
  /\ LocalMin(step.new_block_dt[2]) < LocalMin(step.new_block_dt[1])
  /\ step.dt[1] = Mul(LocalMin(step.new_block_dt[2]), step.cfl)
  /\ step.dt[1] < Twice(step.prev[1])

\* the step is limited by the doubling of the previous dt
LimitedByDoubling ==
  /\ \A w \in StepWorkerSet : step.pc[w] = "done"
  /\ step.dt[1] = 2 * step.prev[1]
  /\ step.dt[1] < Mul(GlobalMinDt, step.cfl)

\* ================================================== Mesh::Initialize
\* boot: res_flag, the n blocks of the list, the dimension of the mesh
\* (nx2>1 from 2, nx3>1 at 3), MAGNETIC_FIELDS_ENABLED, the loop Initialize is
\* in (pc) with its cursor pmb, and the calls made so far on the blocks
\* (blk 0: on the Mesh)
Call(op, b, a) == [op |-> op, blk |-> b, axis |-> a]

\* the calls on the buffers of one axis: fluid, and field if enabled
Exchange(op, b, a, mhd) ==
  <<Call(op \o "Fluid", b, a)>>
    \o (IF mhd THEN <<Call(op \o "Field", b, a)>> ELSE <<>>)

\* one iteration of each loop if the x1 loop received right after sending,
\* block by block
LoopBodyFused(bt, b) ==
  CASE bt.pc = "gen" ->
         <<Call("ProblemGenerator", b, 0), Call("CheckBoundary", b, 0)>>
    [] bt.pc = "start" ->
         <<Call("Initialize", b, 0), Call("StartReceivingForInit", b, 0)>>
    [] bt.pc = "send1" ->
         Exchange("LoadAndSend", b, 1, bt.mhd)
           \o Exchange("ReceiveAndSet", b, 1, bt.mhd)
    [] bt.pc = "recv1" ->
         IF bt.dim >= 2 THEN Exchange("LoadAndSend", b, 2, bt.mhd) ELSE <<>>
    [] bt.pc = "recv2" ->
         Exchange("ReceiveAndSet", b, 2, bt.mhd)
           \o (IF bt.dim >= 3 THEN Exchange("LoadAndSend", b, 3, bt.mhd)
               ELSE <<>>)
    [] bt.pc = "recv3" -> Exchange("ReceiveAndSet", b, 3, bt.mhd)
    [] bt.pc = "clear" ->
         <<Call("ClearBoundaryForInit", b, 0),
           Call("ConservedToPrimitive", b, 0)>>
    [] bt.pc = "dtloop" -> <<Call("NewBlockTimeStep", b, 0)>>

\* the body of one iteration of each loop, on block b
LoopBody(bt, b) ==
  CASE bt.pc = "gen" ->
         <<Call("ProblemGenerator", b, 0), Call("CheckBoundary", b, 0)>>
    [] bt.pc = "start" ->
         <<Call("Initialize", b, 0), Call("StartReceivingForInit", b, 0)>>
    [] bt.pc = "send1" -> Exchange("LoadAndSend", b, 1, bt.mhd)
    [] bt.pc = "recv1" ->
         Exchange("ReceiveAndSet", b, 1, bt.mhd)
           \o (IF bt.dim >= 2 THEN Exchange("LoadAndSend", b, 2, bt.mhd)
               ELSE <<>>)
    [] bt.pc = "recv2" ->
         Exchange("ReceiveAndSet", b, 2, bt.mhd)
           \o (IF bt.dim >= 3 THEN Exchange("LoadAndSend", b, 3, bt.mhd)
               ELSE <<>>)
    [] bt.pc = "recv3" -> Exchange("ReceiveAndSet", b, 3, bt.mhd)
    [] bt.pc = "clear" ->
         <<Call("ClearBoundaryForInit", b, 0),
           Call("ConservedToPrimitive", b, 0)>>
    [] bt.pc = "dtloop" -> <<Call("NewBlockTimeStep", b, 0)>>

\* the loop entered first:  if(res_flag==0)
FirstLoopAlways(res_flag) == "gen"
FirstLoop(res_flag) == IF res_flag = 0 THEN "gen" ELSE "start"

\* the loop, or the statement, after the loop bt.pc
Following(bt) ==
  CASE bt.pc = "gen" -> "start"
    [] bt.pc = "start" -> "send1"
    [] bt.pc = "send1" -> "recv1"
    [] bt.pc = "recv1" ->
         IF bt.dim >= 2 THEN "recv2"
         ELSE IF bt.dim >= 3 THEN "recv3" ELSE "clear"
    [] bt.pc = "recv2" -> IF bt.dim >= 3 THEN "recv3" ELSE "clear"
    [] bt.pc = "recv3" -> "clear"
    [] bt.pc = "clear" -> IF bt.res_flag = 0 THEN "dtloop" ELSE "done"
    [] bt.pc = "dtloop" -> "newdt"

Loops ==
  {"gen", "start", "send1", "recv1", "recv2", "recv3", "clear", "dtloop"}

\* Initialize is called on a mesh of 1..MaxLocal blocks, after a fresh
\* construction (res_flag 0) or a restart
BootInit ==
  /\ \E rf \in 0..1 : \E n \in 1..MaxLocal : \E d \in Axes : \E m \in BOOLEAN :
       boot = [pc |-> "enter", pmb |-> 0, res_flag |-> rf, n |-> n,
               dim |-> d, mhd |-> m, log |-> <<>>]
  /\ mpi = TRUE /\ test_flag = 0 /\ nproc = 1 /\ myrank = 0
  /\ costlist = <<>> /\ ranklist = <<>> /\ nslist = <<>> /\ nblist = <<>>
  /\ nbstart = 0 /\ nbend = -1 /\ phase = "built" /\ planned = FALSE
  /\ adaptive = FALSE /\ ctor = "none" /\ pblock = <<>> /\ cout = <<>>
  /\ pin = Config(<<1, 1, 1>>, 1, [f \in Faces |-> 1])
  /\ list = NoList /\ step = NoStep
  /\ tree = {} /\ reads = <<>> /\ written = <<>> /\ nerr = 0
  /\ resfile = NoFile /\ wire = NoWire
  /\ SchedIdle

BootUnchanged ==
  /\ UNCHANGED <<step, mpi, test_flag, nproc, myrank, costlist, ranklist,
                 nslist, nblist, nbstart, nbend, phase, planned, adaptive,
                 ctor, pblock, cout, pin, resfile, nerr, written, reads, tree,
                 wire, list>>
  /\ UNCHANGED schedvars

\* entry:  if(res_flag==0) { pmb = pblock; ...  or the second loop
InitializeEnter ==
  /\ boot.pc = "enter"
  /\ boot' = [boot EXCEPT !.pc = FirstLoop(boot.res_flag), !.pmb = 1]
  /\ BootUnchanged

\* one iteration of the loop Initialize is in, and  pmb=pmb->next; at the
\* end of the list the next loop starts from pblock
InitializeLoop ==
  /\ boot.pc \in Loops
  /\ boot.pmb # 0
  /\ LET nx == NextBlock(boot.pmb, boot.n) IN
       boot' = [boot EXCEPT !.log = @ \o LoopBody(boot, boot.pmb),
                            !.pmb = IF nx # 0 THEN nx
                                    ELSE IF Following(boot) \in Loops THEN 1
                                    ELSE 0,
                            !.pc = IF nx # 0 THEN @ ELSE Following(boot)]
  /\ BootUnchanged

\* NewTimeStep();  of a fresh run, and the return
InitializeNewTimeStep ==
  /\ boot.pc = "newdt"
  /\ boot' = [boot EXCEPT !.log = Append(@, Call("NewTimeStep", 0, 0)),
                          !.pc = "done"]
  /\ BootUnchanged

BootNext == InitializeEnter \/ InitializeLoop \/ InitializeNewTimeStep

BootSpec == BootInit /\ [][BootNext]_vars

\* the positions of the log at which ProblemGenerator was called on block b
Generated(b) ==
  {i \in 1..Len(boot.log) :
     boot.log[i].op = "ProblemGenerator" /\ boot.log[i].blk = b}

Sends ==
  {i \in 1..Len(boot.log) :
     boot.log[i].op \in {"LoadAndSendFluid", "LoadAndSendField"}}

\* C25: in a fresh run ProblemGenerator is called at most once on a block,
\* exactly once on every block of the list once the first loop is left, and
\* every call precedes every send of boundary data of any block; on a restart
\* it is never called.
C25_GeneratorOncePerBlockBeforeSends ==
  boot.pc # "none" =>
    IF boot.res_flag = 0
    THEN /\ \A b \in 1..boot.n :
              /\ Cardinality(Generated(b)) <= 1
              /\ boot.pc \notin {"enter", "gen"} =>
                   Cardinality(Generated(b)) = 1
              /\ \A i \in Sends : \E j \in Generated(b) : j < i
         /\ \A i \in 1..Len(boot.log) :
              boot.log[i].op = "ProblemGenerator" =>
                boot.log[i].blk \in 1..boot.n
    ELSE \A i \in 1..Len(boot.log) : boot.log[i].op # "ProblemGenerator"

\* Initialize of a fresh run has returned on a list of several blocks whose
\* boundary data was sent along two axes at least
C25_Witness ==
  /\ boot.pc = "done" /\ boot.res_flag = 0
  /\ boot.n >= 2 /\ boot.dim >= 2
  /\ \A b \in 1..boot.n : Generated(b) # {}
  /\ \E i \in Sends : boot.log[i].axis = 2 /\ boot.log[i].blk = boot.n

\* Initialize of a restart has returned: boundary data was sent, no block was
\* generated and no time step taken
RestartInitialized ==
  /\ boot.pc = "done" /\ boot.res_flag # 0
  /\ Sends # {}
  /\ \A i \in 1..Len(boot.log) :
       boot.log[i].op \notin {"ProblemGenerator", "NewBlockTimeStep",
                              "NewTimeStep"}

\* ------------------------------------------- scheduler: cursor invariant
\* the tasks below the cursor ft are all in the completed mask flag
PrefixDone(ft, flag) ==
  /\ ft \in 0..Len(task)
  /\ \A i \in 0..(ft - 1) : task[i + 1].taskid \subseteq flag

\* C33: in every state reached by round resets and DoOneTask calls, for every
\* block of every worker, 0 <= firsttask <= ntask and every task at an index
\* below firsttask has its bit in the completed mask; the same holds of the
\* cursor and mask every call returned.
C33_CursorInvariant ==
  /\ \A w \in Workers : \A b \in DOMAIN blocks[w] :
       PrefixDone(blocks[w][b].firsttask, blocks[w][b].task_flag)
  /\ Called => PrefixDone(last.res.firsttask, last.res.task_flag)

\* a call that skipped an incomplete task completed a later one, and the
\* cursor stayed before the skipped task
C33_Witness ==
  /\ Called
  /\ last.res.status = "running"
  /\ \E k \in 1..Len(last.res.steps) :
       /\ last.res.steps[k].ok
       /\ last.res.steps[k].i > last.res.firsttask
       /\ task[last.res.firsttask + 1].taskid \cap last.res.task_flag = {}
  /\ last.pre.firsttask > 0

\* ------------------------------------------- scheduler: the counter nb
\* the blocks of worker w that still have outstanding tasks
Outstanding(w) == {b \in DOMAIN blocks[w] : blocks[w][b].ntodo > 0}

\* what C34 says of the latest call and of the counter of worker w
CompleteOnceAndCounted(w) ==
  /\ nb[w] >= 0
  /\ pc[w] = "main" => nb[w] = Cardinality(Outstanding(w))
  /\ (Called /\ last.w = w) =>
       /\ last.res.status = "complete" <=>
            (last.pre.ntodo = 1 /\ last.res.ntodo = 0)
       /\ last.pre.ntodo = 0 =>
            /\ last.res.status = "nothing"
            /\ last.res.steps = <<>>
            /\ last.res.firsttask = last.pre.firsttask
            /\ last.res.task_flag = last.pre.task_flag
            /\ last.res.ntodo = 0

\* C34: within a round a block returns `complete` in the call that completes
\* its last outstanding task and in no other; a call on a block with nothing
\* outstanding returns `nothing`, invokes no operation and changes no state;
\* the counter nb of the driver is the number of local blocks that still have
\* outstanding tasks and is never negative.
C34_CompleteOnceCounterExact == \A w \in Workers : CompleteOnceAndCounted(w)

\* the same for every task list with at least one task
CounterExactForNonEmptyLists ==
  Len(task) >= 1 => \A w \in Workers : CompleteOnceAndCounted(w)

\* the round of an empty task list: every block has nothing outstanding and
\* the counter still holds the number of blocks
EmptyListNeverCounted ==
  \A w \in Workers :
    (Len(task) = 0 /\ pc[w] = "main") =>
      /\ nb[w] = Len(blocks[w])
      /\ Outstanding(w) = {}

\* a block was called again after it had returned complete, in a round in
\* which another block is still outstanding
CalledAfterComplete ==
  /\ Called /\ last.pre.ntodo = 0 /\ last.res.status = "nothing"
  /\ Len(task) >= 1
  /\ nb[last.w] = 1

\* ------------------------------------------- scheduler: the round bracket
\* no DoOneTask call was made on worker w since the reset of the round
NoCallYet(w) == pc[w] = "main" /\ sweep[w] = <<>>

\* C31: a round of UpdateOneStep is bracketed: while the main loop runs the
\* receives of every local block are started, and before the first call of
\* the round every local block has cursor 0, outstanding count ntask and an
\* empty completed mask; the receives of a block are cleared only when every
\* local block has completed all tasks of the round.
C31_RoundBracketed ==
  \A w \in Workers :
    /\ pc[w] = "main" =>
         \A b \in DOMAIN blocks[w] : pbval[w][b] = StartReceivingAll
    /\ NoCallYet(w) =>
         \A b \in DOMAIN blocks[w] :
           /\ blocks[w][b].firsttask = 0
           /\ blocks[w][b].ntodo = Len(task)
           /\ blocks[w][b].task_flag = {}
           /\ ran[w][b] = {}
    /\ \A b \in DOMAIN blocks[w] :
         (pbval[w][b] = ClearBoundaryAll \/ pc[w] = "clear") =>
           \A c \in DOMAIN blocks[w] :
             /\ blocks[w][c].ntodo = 0
             /\ blocks[w][c].task_flag = AllTaskIds
             /\ ran[w][c] = 0..(Len(task) - 1)

\* the second round of a worker with several blocks has been reset, after
\* the receives of the first were cleared
C31_Witness ==
  \E w \in Workers :
    /\ NoCallYet(w) /\ ncycle[w] = 1
    /\ Len(blocks[w]) >= 2 /\ Len(task) >= 2

\* the receives of a round were cleared
RoundCleared ==
  \E w \in Workers :
    /\ pc[w] = "returned" /\ Len(blocks[w]) >= 2 /\ Len(task) >= 2
    /\ \A b \in DOMAIN blocks[w] : pbval[w][b] = ClearBoundaryAll

\* ------------------------------------------- planner: the master's load
\* C32: the summed cost of the blocks of rank 0 is at most the summed cost of
\* the blocks of every rank that received at least one block.
C32_MasterNeverHeaviest ==
  planned =>
    \A r \in 1..(nproc - 1) :
      IdsOfRank(r) # {} =>
        CostOfIds(IdsOfRank(0)) <= CostOfIds(IdsOfRank(r))

\* three workers share blocks of unequal costs, each has some, and rank 0 has
\* strictly less than another
C32_Witness ==
  /\ planned /\ nproc >= 3
  /\ \A r \in 0..(nproc - 1) : IdsOfRank(r) # {}
  /\ \E g \in 1..Len(costlist) : costlist[g] # costlist[1]
  /\ \E r \in 1..(nproc - 1) :
       CostOfIds(IdsOfRank(0)) < CostOfIds(IdsOfRank(r))

\* the blocks ran out before rank 0 got one
MasterEmpty ==
  /\ planned /\ nproc >= 2 /\ Len(costlist) >= nproc
  /\ IdsOfRank(0) = {}

\* ------------------------------------------- planner: empty ranks
\* C37: whenever there are at least as many blocks as workers the planner
\* gives every rank 0..nproc-1 at least one block, and the owned range
\* nbstart..nbend of this worker is not empty.
C37_EveryRankOwnsABlock ==
  (planned /\ Len(costlist) >= nproc) =>
    /\ \A r \in 0..(nproc - 1) : IdsOfRank(r) # {}
    /\ phase = "built" => nbstart <= nbend

\* the same for blocks of equal cost
EveryRankOwnsABlockIfUniform ==
  (planned /\ Len(costlist) >= nproc
     /\ \A g \in 1..Len(costlist) : costlist[g] = costlist[1]) =>
    /\ \A r \in 0..(nproc - 1) : IdsOfRank(r) # {}
    /\ phase = "built" => nbstart <= nbend

\* the ranks that own no block are the lowest ones: the blocks ran out while
\* the bucket of a higher rank was open
EmptyRanksAreLowest ==
  planned =>
    \A r \in 0..(nproc - 1) : \A q \in 0..(nproc - 1) :
      (IdsOfRank(r) = {} /\ q < r) => IdsOfRank(q) = {}

\* ------------------------------------------- pblock after a constructor
\* the constructor returned normally: after the mesh test, or with the blocks
\* of this worker made
ReturnedNormally == ctor # "none" /\ phase \in {"test", "built"}

\* C39: after every constructor call that returns normally pblock refers to
\* the head of a non-empty block list.
C39_PblockHeadOfNonEmptyList ==
  ReturnedNormally =>
    /\ list.pblock \in Live
    /\ list.prev[list.pblock] = NullPtr

\* the same outside test mode for a worker that owns a block
PblockHeadIfBlocksMade ==
  (ReturnedNormally /\ phase = "built" /\ nbstart <= nbend) =>
    /\ list.pblock \in Live
    /\ list.prev[list.pblock] = NullPtr

\* a constructor in test mode never assigns pblock and makes no block
TestModeLeavesPblockUnset ==
  (ctor # "none" /\ phase = "test") =>
    /\ list.pblock \notin Live
    /\ Live = {}
    /\ list.pblock \in {NullPtr, WildPtr}

\* both constructors returned from the mesh test
TestModeReturned == ctor = "restart" /\ phase = "test" /\ test_flag > 0

\* ------------------------------------------- neighbor records: rank, lid
\* the first global ID of the range of rank r in the rank list: the nbstart
\* of the worker that owns the blocks of rank r
FirstOfRank(r) == CHOOSE g \in IdsOfRank(r) : \A h \in IdsOfRank(r) : g <= h

\* a neighbor record names the rank of the rank list and the local ID the
\* neighbor has on the worker of that rank
RankAndLidCurrent(r) ==
  /\ r.rank = ranklist[r.gid + 1]
  /\ r.lid = r.gid - FirstOfRank(r.rank)

\* C36: after a fresh construction and after a restart, every neighbor
\* record with a neighbor (gid # -1) has the rank that the current rank list
\* gives the neighbor's global ID and the local ID of the neighbor on its
\* owner, its global ID less the first global ID of that rank; on a restart
\* the records without neighbor are as stored in the file.
C36_NeighborRankAndLid ==
  (ctor # "none" /\ phase = "built") =>
    \A k \in 1..Len(pblock) :
      /\ \A r \in pblock[k].neighbor : r.gid # -1 => RankAndLidCurrent(r)
      /\ ctor = "restart" =>
           \A r \in pblock[k].neighbor :
             r.gid = -1 => r \in WrittenOf(pblock[k]).neighbor

\* the same when every rank owns a block
NeighborRankAndLidIfNoRankEmpty ==
  (\A q \in 0..(nproc - 1) : IdsOfRank(q) # {}) => C36_NeighborRankAndLid

\* a block was restored next to a neighbor of another rank, with every rank
\* owning a block
NeighborOnOtherRank ==
  /\ Restored /\ nproc >= 2
  /\ \A q \in 0..(nproc - 1) : IdsOfRank(q) # {}
  /\ \E k \in 1..Len(pblock) : \E r \in pblock[k].neighbor :
       r.gid # -1 /\ r.rank # myrank /\ r.lid > 0

\* ------------------------------------- Initialize: order of the exchange
\* the buffers exchanged along one axis: fluid, and field if enabled
Kinds == IF boot.mhd THEN {"Fluid", "Field"} ELSE {"Fluid"}

\* the positions of the log at which block b sent, or received, along axis a
SentAt(b, a, kind) ==
  {i \in 1..Len(boot.log) :
     boot.log[i] = Call("LoadAndSend" \o kind, b, a)}

ReceivedAt(b, a, kind) ==
  {i \in 1..Len(boot.log) :
     boot.log[i] = Call("ReceiveAndSet" \o kind, b, a)}

\* C35: in Mesh::Initialize a receive-and-wait of a block along an axis comes
\* after the sends of every block of the list along that axis, and a send of
\* a block along the next axis comes after that block's own receives along
\* the axis before; so no receive waits for a send of the same worker that
\* is still to come.
C35_SendsBeforeReceivesPerAxis ==
  boot.pc # "none" =>
    \A a \in Axes : \A b \in 1..boot.n : \A kind \in Kinds :
      /\ \A i \in ReceivedAt(b, a, kind) :
           \A c \in 1..boot.n : \A k2 \in Kinds :
             \E j \in SentAt(c, a, k2) : j < i
      /\ a >= 2 =>
           \A i \in SentAt(b, a, kind) :
             \A k2 \in Kinds :
               \E j \in ReceivedAt(b, a - 1, k2) : j < i

\* Initialize has returned on a list of several blocks of a 3D mesh with
\* magnetic fields: every block received along x3
C35_Witness ==
  /\ boot.pc = "done" /\ boot.n >= 2 /\ boot.dim = 3 /\ boot.mhd
  /\ \A b \in 1..boot.n : ReceivedAt(b, 3, "Field") # {}

\* --------------------------------------- neighbor wiring: both directions
\* the face opposite to face f:  inner_x1 <-> outer_x1, ...
OppositeFace(f) == IF f % 2 = 0 THEN f + 1 ELSE f - 1

\* the neighbor table of block g of the mesh: the table of the block if this
\* worker made it, what its owner's constructor stores otherwise (the same
\* code on the same configuration, rank list and start list)
TableOfGid(g) ==
  IF \E k \in 1..Len(pblock) : pblock[k].gid = g
  THEN pblock[CHOOSE k \in 1..Len(pblock) : pblock[k].gid = g].neighbor
  ELSE WireBlock(pin, RootGrid(pin), g, ranklist, nslist).tab

\* block g stores block h as its neighbor across face f
Stores(g, f, h) == \E r \in TableOfGid(g) : r.dir = f /\ r.gid = h

\* the relation wired by the fresh constructor is symmetric at block b
SymmetricAt(b) ==
  \A d \in Faces :
    /\ \A r \in RecordsOf(b, d) :
         r.gid # -1 => Stores(r.gid, OppositeFace(d), b.gid)
    /\ (Sentinel(d) \in b.neighbor) <=>
         ~ \E h \in 0..(Len(ranklist) - 1) : Stores(h, OppositeFace(d), b.gid)

\* C38: after the fresh constructor, whatever the six boundary tags: if a
\* block A stores B across face d then B stores A across the opposite face,
\* and A stores the sentinel across d exactly when no block stores a record
\* across the opposite face that points back at A
C38_NeighborRelationSymmetric ==
  (ctor = "fresh" /\ phase = "built") =>
    \A k \in 1..Len(pblock) : SymmetricAt(pblock[k])

\* the two faces of every active axis are both periodic or both not
TagsAgree ==
  \A a \in Axes :
    (a = 1 \/ pin.nx[a] > 1) =>
      ((pin.bcs[2 * a - 2] = 4) <=> (pin.bcs[2 * a - 1] = 4))

\* the relation is symmetric when the two faces of every active axis agree
\* on being periodic
NeighborRelationSymmetricIfTagsAgree ==
  TagsAgree => C38_NeighborRelationSymmetric

\* a fresh run on a periodic row of several blocks shared by two workers:
\* the block made here stores a block of the other worker, which stores it
SymmetricAcrossWorkers ==
  /\ ctor = "fresh" /\ phase = "built" /\ TagsAgree /\ nproc >= 2
  /\ \E k \in 1..Len(pblock) : \E d \in Faces : \E r \in RecordsOf(pblock[k], d) :
       /\ r.gid # -1 /\ r.rank # myrank /\ EdgeFace(pblock[k], d)
       /\ Stores(r.gid, OppositeFace(d), pblock[k].gid)

\* a fresh run whose x1 axis is periodic on one face only: a block stores a
\* neighbor across that face, and the neighbor stores the sentinel back
OneSidedNeighbor ==
  /\ ctor = "fresh" /\ phase = "built"
  /\ \E k \in 1..Len(pblock) : \E d \in Faces : \E r \in RecordsOf(pblock[k], d) :
       /\ r.gid # -1
       /\ Sentinel(OppositeFace(d)) \in TableOfGid(r.gid)

==============================================================================
